---- MODULE Spec2Model ----
(***************************************************************************)
(* Model of the dataset download pipeline of darwin-py:                    *)
(*   darwin/dataset/utils.py            exhaust_generator                  *)
(*   darwin/dataset/download_manager.py planner, fetch layer, manifests    *)
(*                                      frame extraction, local_path trace *)
(*   darwin/dataset/remote_dataset.py   RemoteDataset.pull                 *)
(* Each subsystem has its own specification over the shared variables; the *)
(* variables of the other subsystems stay at their idle values.            *)
(***************************************************************************)
EXTENDS Integers, Sequences, FiniteSets, TLC

\* ------------------------------------------------------------------ bounds
\* Largest number of tasks handed to exhaust_generator.
MaxTasks == 5
\* Number of worker processes of the pool (mp.cpu_count() of the host).
PoolSize == 2
\* Largest number of manifest lines of one slot.
MaxLines == 3
\* Largest number of calls into the fetch layer in one run.
MaxCalls == 2
\* Largest number of urls in one list (manifest urls, urls of an indirection response).
MaxUrls == 2
\* Largest number of failures of a server that recovers during the poll loop.
MaxTransient == 2
\* Largest number of annotation files in annotations_path.
MaxAnnotations == 2
\* Largest number of files under images_path before the planner runs.
MaxExisting == 1
\* Largest number of frames the stream of a segment container decodes to.
MaxStream == 3
\* Largest number of source files of one annotation.
MaxSourceFiles == 3

\* ------------------------------------------------------------------ state
VARIABLES
    \* exhaust_generator (utils.py)
    eTasks,        \* the generator's tasks: what each does when run ("ok" / "raise")
    eMulti,        \* multi_threaded
    ePc,           \* position in exhaust_generator
    eNext,         \* index of the next task the for loop takes from the generator
    eState,        \* per task: "new", "queued", "running", "ok", "err"
    eRuns,         \* per task: how many times it was executed
    eCompleted,    \* pbar.completed
    eResponses,    \* responses (a task's result is modelled by its index)
    \* _parse_manifests (download_manager.py)
    mPaths,              \* the manifest files: each a sequence of lines
    mPc,                 \* position in _parse_manifests
    mFile,               \* index of the file being read
    mLine,               \* index of the next line of that file
    all_manifests,       \* the dict, in insertion order: <<[segment, items]>>
    visible_frame_index,
    segments,            \* the returned list of SegmentManifest
    \* fetch layer (download_manager.py)
    disk,          \* the files on disk: path -> content
    fOp,           \* the function being executed
    fPc,           \* its position
    fOutcome,      \* how the call ended
    fUrl,          \* url (of the current request)
    fUrls,         \* urls (download_manifest_txts)
    fIdx,          \* index (download_manifest_txts), 0-based
    fPath,         \* path, or folder (download_manifest_txts)
    fSlot,         \* slot.metadata["colorspace"], "" when there is none
    fElapsed,      \* time.time() - start
    fSessAuth,     \* session.headers holds an Authorization header
    fRetries,      \* retries the adapter has left for the current session.get
    fScript,       \* what the server answers for the current url
    fServed,       \* attempts the server answered for the current session.get
    fSub,          \* urls of the indirection response (_fetch_multiple_files)
    fSubIdx,       \* index of the next of them
    fLast,         \* the last HTTP request sent, and the status it got
    fReqs,         \* HTTP requests sent during the call
    fSleeps,       \* time.sleep(1) calls during the call
    fDisk0,        \* the disk when the call started
    fCalls,        \* calls made so far
    \* download_all_images_from_annotations (download_manager.py)
    cwd,                   \* the working directory of the process
    images_path,
    annotations,           \* the annotation files of annotations_path, in glob order
    options,               \* the arguments force_replace, remove_extra, use_folders,
                           \* video_frames, force_slots, ignore_slots as passed
    force_slots,           \* the local force_slots, which the filter loop may set
    pPc,                   \* position in download_all_images_from_annotations
    pIndex,                \* index of the annotation the current loop is at
    existing_images,
    annotations_to_download_path,
    download_functions,
    pDisk0,                \* the disk when the planner was called
    \* RemoteDataset.pull (remote_dataset.py)
    pull,                  \* the arguments blocking and multi_threaded
    plPc,                  \* position in pull
    plRan,                 \* per planned download function: what running it did
    plReturn,              \* the value pull returned
    plYield,               \* what the last call of the returned callable gave
    plCalls,               \* calls of the returned callable so far
    \* RemoteDataset.pull up to the planner (remote_dataset.py)
    release,               \* the release argument: its format, whether it is the latest
    only_annotations,
    rPc,                   \* position in pull
    rLocal,                \* what the local disk holds of the release
    rLocal0,               \* the same when pull was called
    rZip,                  \* the extracted archive in the temporary directory
    rRaised,               \* the exception pull raised
    \* _download_and_extract_video_segment (download_manager.py)
    xManifest,             \* manifest, the SegmentManifest of the segment
    xStream,               \* the video stream of the segment container
    xOpenCV,               \* OpenCV is installed
    xPc,                   \* position in the call
    frames_to_extract,     \* the dict frame -> visible_frame of the pending frames
    frame_index,
    xReads,                \* the cap.read() calls: frame_index and whether frames were pending
    xRaised,               \* the exception that left the call
    \* get_segment_manifests (download_manager.py)
    gPc,                   \* position in the call
    gFrameManifest,        \* slot.frame_manifest: whether it is there, and its urls
    gReturn,               \* what the call returned
    gRaised,               \* the exception that left the call
    \* _download_image_with_trace tasks of one annotation (download_manager.py)
    tVersion,              \* annotation.version.major
    tMulti,                \* multi_threaded
    tPc,                   \* per task: its position
    tRaw,                  \* per task: raw_annotation, as the source files with a local_path
    tFile                  \* the annotation file on disk

engineVars == <<eTasks, eMulti, ePc, eNext, eState, eRuns, eCompleted, eResponses>>
manifestVars == <<mPaths, mPc, mFile, mLine, all_manifests, visible_frame_index, segments>>
fetchCallVars == <<fOp, fPc, fOutcome, fUrl, fUrls, fIdx, fPath, fSlot, fElapsed, fSessAuth,
                   fRetries, fScript, fServed, fSub, fSubIdx, fLast, fReqs, fSleeps, fDisk0, fCalls>>
fetchVars == <<disk, fetchCallVars>>
planVars == <<cwd, images_path, annotations, options, force_slots, pPc, pIndex, existing_images,
              annotations_to_download_path, download_functions, pDisk0>>
pullVars == <<pull, plPc, plRan, plReturn, plYield, plCalls>>
releaseVars == <<release, only_annotations, rPc, rLocal, rLocal0, rZip, rRaised>>
extractVars == <<xManifest, xStream, xOpenCV, xPc, frames_to_extract, frame_index, xReads,
                 xRaised>>
assembleVars == <<gPc, gFrameManifest, gReturn, gRaised>>
traceVars == <<tVersion, tMulti, tPc, tRaw, tFile>>
laterVars == <<releaseVars, extractVars, assembleVars, traceVars>>
vars == <<engineVars, manifestVars, fetchVars, planVars, pullVars, laterVars>>
notEngineVars == <<manifestVars, fetchVars, planVars, pullVars, laterVars>>
notManifestVars == <<engineVars, fetchVars, planVars, pullVars, laterVars>>
notFetchVars == <<engineVars, manifestVars, planVars, pullVars, laterVars>>
notPlanVars == <<engineVars, manifestVars, fetchCallVars, pullVars, laterVars>>
notPullVars == <<engineVars, manifestVars, fetchCallVars, planVars, laterVars>>
notReleaseVars ==
    <<engineVars, manifestVars, fetchVars, planVars, pullVars, extractVars, assembleVars,
      traceVars>>
notExtractVars ==
    <<engineVars, manifestVars, fetchCallVars, planVars, pullVars, releaseVars, assembleVars,
      traceVars>>
notAssembleVars ==
    <<engineVars, manifestVars, fetchCallVars, planVars, pullVars, releaseVars, extractVars,
      traceVars>>
notTraceVars ==
    <<engineVars, manifestVars, fetchVars, planVars, pullVars, releaseVars, extractVars,
      assembleVars>>

\* ------------------------------------------------------------------ helpers
Range(s) == {s[i] : i \in 1..Len(s)}

SeqsUpTo(S, n) == UNION {[1..k -> S] : k \in 0..n}

\* ============================================================ exhaust_generator
\* src/darwin/dataset/utils.py:165-199

TaskIds == 1..Len(eTasks)

EngineIdle ==
    /\ eTasks = <<>>
    /\ eMulti = FALSE
    /\ ePc = "idle"
    /\ eNext = 1
    /\ eState = <<>>
    /\ eRuns = <<>>
    /\ eCompleted = 0
    /\ eResponses = <<>>

\* The state when exhaust_generator is entered: responses = [], pbar.completed = 0.
InitEngine ==
    /\ eTasks \in SeqsUpTo({"ok", "raise"}, MaxTasks)
    /\ eMulti \in BOOLEAN
    /\ ePc = "iter"
    /\ eNext = 1
    /\ eState = [i \in TaskIds |-> "new"]
    /\ eRuns = [i \in TaskIds |-> 0]
    /\ eCompleted = 0
    /\ eResponses = <<>>

\* _f(x): runs the task once; its outcome is the task's own.
RunTask(i) == eTasks[i]

NumRunning == Cardinality({i \in TaskIds : eState[i] = "running"})

\* for f in progress: responses.append(pool.apply_async(_f, args=(f,), callback=update))
PoolSubmit ==
    /\ eMulti /\ ePc = "iter" /\ eNext \in TaskIds
    /\ eState' = [eState EXCEPT ![eNext] = "queued"]
    /\ eNext' = eNext + 1
    /\ UNCHANGED <<eTasks, eMulti, ePc, eRuns, eCompleted, eResponses>>
    /\ UNCHANGED notEngineVars

\* pool.close(): the generator is exhausted; no more tasks are submitted.
PoolClose ==
    /\ eMulti /\ ePc = "iter" /\ eNext \notin TaskIds
    /\ ePc' = "join"
    /\ UNCHANGED <<eTasks, eMulti, eNext, eState, eRuns, eCompleted, eResponses>>
    /\ UNCHANGED notEngineVars

\* A free worker process of the pool takes a queued task and calls _f on it.
WorkerStart(i) ==
    /\ eMulti /\ ePc \in {"iter", "join"}
    /\ eState[i] = "queued"
    /\ NumRunning < PoolSize
    /\ eState' = [eState EXCEPT ![i] = "running"]
    /\ eRuns' = [eRuns EXCEPT ![i] = @ + 1]
    /\ UNCHANGED <<eTasks, eMulti, ePc, eNext, eCompleted, eResponses>>
    /\ UNCHANGED notEngineVars

\* The task ends. The pool stores its result or its exception in the AsyncResult;
\* callback=update runs for a result only (no error_callback is given).
WorkerFinish(i) ==
    /\ eMulti /\ ePc \in {"iter", "join"}
    /\ eState[i] = "running"
    /\ IF RunTask(i) = "ok"
         THEN /\ eState' = [eState EXCEPT ![i] = "ok"]
              /\ eCompleted' = eCompleted + 1
         ELSE /\ eState' = [eState EXCEPT ![i] = "err"]
              /\ UNCHANGED eCompleted
    /\ UNCHANGED <<eTasks, eMulti, ePc, eNext, eRuns, eResponses>>
    /\ UNCHANGED notEngineVars

\* pool.join(): returns once the workers have processed every submitted task.
PoolJoin ==
    /\ eMulti /\ ePc = "join"
    /\ \A i \in TaskIds : eState[i] \in {"ok", "err"}
    /\ ePc' = "collect"
    /\ UNCHANGED <<eTasks, eMulti, eNext, eState, eRuns, eCompleted, eResponses>>
    /\ UNCHANGED notEngineVars

\* Mutant of Successful: the filter on response.successful() is missing.
SuccessfulUnfiltered(i) == eState[i] \in {"ok", "err"}

\* response.successful(): the task has ended without an exception
Successful(i) == eState[i] = "ok"

\* responses = [response.get() for response in responses if response.successful()]
Collect ==
    /\ eMulti /\ ePc = "collect"
    /\ eResponses' = SelectSeq([i \in TaskIds |-> i], Successful)
    /\ ePc' = "done"
    /\ UNCHANGED <<eTasks, eMulti, eNext, eState, eRuns, eCompleted>>
    /\ UNCHANGED notEngineVars

\* for f in track(progress, ...): responses.append(_f(f))
\* An exception of _f is not caught: it leaves the loop and exhaust_generator.
SeqStep ==
    /\ ~eMulti /\ ePc = "iter" /\ eNext \in TaskIds
    /\ eRuns' = [eRuns EXCEPT ![eNext] = @ + 1]
    /\ IF RunTask(eNext) = "ok"
         THEN /\ eState' = [eState EXCEPT ![eNext] = "ok"]
              /\ eResponses' = Append(eResponses, eNext)
              /\ eNext' = eNext + 1
              /\ UNCHANGED ePc
         ELSE /\ eState' = [eState EXCEPT ![eNext] = "err"]
              /\ ePc' = "raised"
              /\ UNCHANGED <<eResponses, eNext>>
    /\ UNCHANGED <<eTasks, eMulti, eCompleted>>
    /\ UNCHANGED notEngineVars

\* return responses (sequential mode)
SeqReturn ==
    /\ ~eMulti /\ ePc = "iter" /\ eNext \notin TaskIds
    /\ ePc' = "done"
    /\ UNCHANGED <<eTasks, eMulti, eNext, eState, eRuns, eCompleted, eResponses>>
    /\ UNCHANGED notEngineVars

NextEngine ==
    \/ PoolSubmit
    \/ PoolClose
    \/ \E i \in TaskIds : WorkerStart(i)
    \/ \E i \in TaskIds : WorkerFinish(i)
    \/ PoolJoin
    \/ Collect
    \/ SeqStep
    \/ SeqReturn

\* ============================================================ _parse_manifests
\* src/darwin/dataset/download_manager.py:650-683

\* None, for ManifestItem.absolute_frame and ManifestItem.visible_frame.
NONE == -1

\* The fields of a manifest line "frame:segment:visibility:timestamp", as
\* line.strip("\n").split(":") yields them.
Frames == {0, 1}
Segments == {0, 1, 2}
Timestamps == {0}
Lines == [frame : Frames, segment : Segments, visibility : {0, 1}, timestamp : Timestamps]

\* The lists of manifest files of one slot: the lines of the slot, cut into two files.
ManifestInputs ==
    {<<SubSeq(c[1], 1, c[2]), SubSeq(c[1], c[2] + 1, Len(c[1]))>> :
        c \in {d \in SeqsUpTo(Lines, MaxLines) \X (0..MaxLines) : d[2] <= Len(d[1])}}
    \cup {<<>>}

ManifestIdle ==
    /\ mPaths = <<>>
    /\ mPc = "idle"
    /\ mFile = 1
    /\ mLine = 1
    /\ all_manifests = <<>>
    /\ visible_frame_index = 0
    /\ segments = <<>>

\* all_manifests = {}; visible_frame_index = 0
InitManifest ==
    /\ mPaths \in ManifestInputs
    /\ mPc = "read"
    /\ mFile = 1
    /\ mLine = 1
    /\ all_manifests = <<>>
    /\ visible_frame_index = 0
    /\ segments = <<>>

\* Mutant of ManifestItem: a visible item is indexed by its own frame number
\* instead of the shared counter.
ManifestItemByFrame(line, vfi) ==
    [frame |-> line.frame,
     absolute_frame |-> NONE,
     segment |-> line.segment,
     visibility |-> (line.visibility # 0),
     timestamp |-> line.timestamp,
     visible_frame |-> IF line.visibility # 0 THEN line.frame ELSE NONE]

\* dt.ManifestItem(int(frame), None, segment_int, visible, float(timestamp), visible_frame)
ManifestItem(line, vfi) ==
    [frame |-> line.frame,
     absolute_frame |-> NONE,
     segment |-> line.segment,
     visibility |-> (line.visibility # 0),
     timestamp |-> line.timestamp,
     visible_frame |-> IF line.visibility # 0 THEN vfi ELSE NONE]

\* Position of key seg in the dict (0 when absent).
KeyIndex(d, seg) ==
    IF \E k \in 1..Len(d) : d[k].segment = seg
      THEN CHOOSE k \in 1..Len(d) : d[k].segment = seg
      ELSE 0

\* if segment_int not in all_manifests: all_manifests[segment_int] = []
\* all_manifests[segment_int].append(item): a new key goes last (insertion order).
DictAppend(d, seg, item) ==
    IF KeyIndex(d, seg) = 0
      THEN Append(d, [segment |-> seg, items |-> <<item>>])
      ELSE [d EXCEPT ![KeyIndex(d, seg)].items = Append(@, item)]

\* for line in infile: one line of the current file
ParseLine ==
    /\ mPc = "read"
    /\ mFile \in 1..Len(mPaths)
    /\ mLine \in 1..Len(mPaths[mFile])
    /\ LET line == mPaths[mFile][mLine]
       IN /\ all_manifests' =
                DictAppend(all_manifests, line.segment, ManifestItem(line, visible_frame_index))
          /\ visible_frame_index' =
                IF line.visibility # 0 THEN visible_frame_index + 1 ELSE visible_frame_index
    /\ mLine' = mLine + 1
    /\ UNCHANGED <<mPaths, mPc, mFile, segments>>
    /\ UNCHANGED notManifestVars

\* for path in paths: the current file is exhausted, open the next one
NextManifestFile ==
    /\ mPc = "read"
    /\ mFile \in 1..Len(mPaths)
    /\ mLine > Len(mPaths[mFile])
    /\ mFile' = mFile + 1
    /\ mLine' = 1
    /\ UNCHANGED <<mPaths, mPc, all_manifests, visible_frame_index, segments>>
    /\ UNCHANGED notManifestVars

\* list.sort(key=lambda x: x.frame): stable, ascending by frame
RECURSIVE InsertByFrame(_, _)
InsertByFrame(item, s) ==
    IF s = <<>> THEN <<item>>
    ELSE IF s[Len(s)].frame <= item.frame THEN Append(s, item)
    ELSE Append(InsertByFrame(item, SubSeq(s, 1, Len(s) - 1)), s[Len(s)])

RECURSIVE SortByFrame(_)
SortByFrame(s) ==
    IF s = <<>> THEN <<>>
    ELSE InsertByFrame(s[Len(s)], SortByFrame(SubSeq(s, 1, Len(s) - 1)))

\* for segment_int, seg_manifests in all_manifests.items(): ... segments.append(...)
\* The list follows the iteration order of the dict.
SegmentList(d) ==
    [k \in 1..Len(d) |->
        [segment |-> d[k].segment,
         total_frames |-> Len(d[k].items),
         items |-> SortByFrame(d[k].items)]]

BuildSegments ==
    /\ mPc = "read"
    /\ mFile > Len(mPaths)
    /\ segments' = SegmentList(all_manifests)
    /\ mPc' = "absolute"
    /\ UNCHANGED <<mPaths, mFile, mLine, all_manifests, visible_frame_index>>
    /\ UNCHANGED notManifestVars

\* Number of items in the first k segments of the list.
RECURSIVE ItemsBefore(_, _)
ItemsBefore(segs, k) ==
    IF k <= 1 THEN 0 ELSE ItemsBefore(segs, k - 1) + Len(segs[k - 1].items)

\* Mutant of WithAbsoluteFrames: the counter starts again in every segment.
WithSegmentLocalFrames(segs) ==
    [k \in 1..Len(segs) |->
        [segs[k] EXCEPT !.items =
            [j \in 1..Len(segs[k].items) |->
                [segs[k].items[j] EXCEPT !.absolute_frame = j - 1]]]]

\* absolute_frame = 0; for segment in segments: for item in segment.items:
\*     item.absolute_frame = absolute_frame; absolute_frame += 1
WithAbsoluteFrames(segs) ==
    [k \in 1..Len(segs) |->
        [segs[k] EXCEPT !.items =
            [j \in 1..Len(segs[k].items) |->
                [segs[k].items[j] EXCEPT !.absolute_frame = ItemsBefore(segs, k) + j - 1]]]]

\* The numbering loop and return segments.
AssignAbsoluteFrames ==
    /\ mPc = "absolute"
    /\ segments' = WithAbsoluteFrames(segments)
    /\ mPc' = "done"
    /\ UNCHANGED <<mPaths, mFile, mLine, all_manifests, visible_frame_index>>
    /\ UNCHANGED notManifestVars

NextManifest ==
    \/ ParseLine
    \/ NextManifestFile
    \/ BuildSegments
    \/ AssignAbsoluteFrames

\* ============================================================ fetch layer
\* src/darwin/dataset/download_manager.py:475-636

\* TIMEOUT: int = 60
TIMEOUT == 60
\* Retry(total=5, backoff_factor=0.5, status_forcelist=[500, 502, 503, 504])
RetryTotal == 5
StatusForcelist == {500, 502, 503, 504}

FileName(stem, suffix) == [stem |-> stem, suffix |-> suffix]
NoFile == FileName("", "")

\* A url: its scheme, the last segment of its path, and its query string.
NoUrl == [scheme |-> "", file |-> NoFile, query |-> ""]
Urls == [scheme : {"http", "https"}, file : {FileName("f", ".bin")}, query : {"", "token"}]
\* The urls an indirection response lists.
SubUrls == [scheme : {"https"}, file : {FileName("a", ".dcm"), FileName("b", ".dcm")}, query : {""}]

\* "token" in url
HasToken(url) == "token" \in {url.scheme, url.file.stem, url.query}

\* A path is the sequence of its components.
ImagePath == <<FileName("img", ".png")>>
SegmentPath == <<FileName(".0000000", ".ts")>>
ManifestFolder == <<FileName("tmpdir", "")>>

\* Mutant of WithSuffix: the extension of the destination is kept.
WithSuffixKept(path, suffix) == path

\* Path(path).with_suffix(suffix)
WithSuffix(path, suffix) == [path EXCEPT ![Len(path)].suffix = suffix]
\* path / name
Child(path, name) == Append(path, name)
\* f"manifest_{index + 1}.txt"
ManifestFileName(index) ==
    FileName(<<"manifest_1", "manifest_2", "manifest_3", "manifest_4">>[index + 1], ".txt")

\* A response: its status, what its body is, and the "urls" of a JSON body.
Response(status, kind, hasUrls, urls) ==
    [status |-> status, kind |-> kind, hasUrls |-> hasUrls, urls |-> urls]
OkBinary == Response(200, "binary", FALSE, <<>>)
OkEmpty == Response(200, "empty", FALSE, <<>>)
ErrorResponse(status) == Response(status, "error", FALSE, <<>>)

\* The server behind a url: it answers the first `fails` requests with status
\* `code`, then answers `final`; each answer takes `seconds`.
NoScript == [fails |-> 0, code |-> 0, final |-> ErrorResponse(0), seconds |-> 0]
\* Behind a segment or manifest url: no failure, one, as many as the retry budget
\* allows, and one more than that.
Scripts ==
    {sc \in [fails : {0, 1, RetryTotal, RetryTotal + 1}, code : {501, 503},
             final : {OkBinary, OkEmpty, ErrorResponse(404)}, seconds : {0}] :
        sc.fails = 0 => sc.code = 503}
\* Behind an image or frame url; Forever outlasts the poll loop.
Forever == TIMEOUT + 2
ImageFinals ==
    {OkBinary, ErrorResponse(404), Response(200, "json", FALSE, <<>>)}
    \cup {Response(200, "json", TRUE, u) : u \in SeqsUpTo(SubUrls, MaxUrls)}
ImageScripts ==
    {sc \in [fails : (0..MaxTransient) \cup {Forever}, code : {503}, final : ImageFinals,
             seconds : {0, 1}] :
        sc.fails = Forever => sc.final = OkBinary}
ServerAnswer(script, attempt) ==
    IF attempt <= script.fails THEN ErrorResponse(script.code) ELSE script.final

NoRequest == [by |-> "none", url |-> NoUrl, auth |-> FALSE, status |-> 0]

\* response.ok
Ok(resp) == resp.status < 400
\* Mutant of IsFatal: no status is fatal, so a 4xx is polled again.
IsFatalNever(status) == FALSE

\* 400 <= response.status_code <= 499
IsFatal(status) == 400 <= status /\ status <= 499
\* has_json_content_type(response)
HasJsonContentType(resp) == resp.kind = "json"

\* Mutant of PathExists: the check for an existing destination is missing.
PathExistsNever(path) == FALSE

\* path.exists()
PathExists(path) == path \in DOMAIN disk

\* _write_file: the body is streamed to path, then transform_file_function runs.
WriteFile(d, path, resp, colorspace) ==
    (path :> (IF colorspace = "RG16" THEN "gray"
              ELSE IF resp.kind = "empty" THEN "empty" ELSE "body")) @@ d

\* dir_path.mkdir(exist_ok=True, parents=True): a directory that is there stays as it is.
MakeDir(d, path) == IF path \in DOMAIN d THEN d ELSE (path :> "dir") @@ d

\* Mutant of TimedOut: >= in place of >.
TimedOutEarly(elapsed) == elapsed >= TIMEOUT

\* time.time() - start > TIMEOUT
TimedOut(elapsed) == elapsed > TIMEOUT

\* if "token" in url: requests.get(url) else: requests.get(url, headers={"Authorization": ...})
ImageAuth(url) == ~HasToken(url)

\* Nothing is being fetched: the locals of the last call are gone.
FetchLocalsIdle ==
    /\ fOp = "idle"
    /\ fPc = "idle"
    /\ fOutcome = "none"
    /\ fUrl = NoUrl
    /\ fUrls = <<>>
    /\ fIdx = 0
    /\ fPath = <<>>
    /\ fSlot = ""
    /\ fElapsed = 0
    /\ fSessAuth = FALSE
    /\ fRetries = 0
    /\ fScript = NoScript
    /\ fServed = 0
    /\ fSub = <<>>
    /\ fSubIdx = 1
    /\ fLast = NoRequest
    /\ fReqs = 0
    /\ fSleeps = 0
    /\ fDisk0 = <<>>

FetchIdle ==
    /\ FetchLocalsIdle
    /\ disk = <<>>
    /\ fCalls = 0

\* Before the first call the destination of the image may already be on disk.
InitFetchVars ==
    /\ FetchLocalsIdle
    /\ disk \in {<<>>, ImagePath :> "old"}
    /\ fCalls = 0

\* What every call sets when it starts.
StartCall(op, url, path) ==
    /\ fPc = "idle"
    /\ fCalls < MaxCalls
    /\ fCalls' = fCalls + 1
    /\ fOp' = op
    /\ fUrl' = url
    /\ fPath' = path
    /\ fLast' = NoRequest
    /\ fReqs' = 0
    /\ fSleeps' = 0
    /\ fDisk0' = disk

\* _download_image(url, path, api_key, slot) up to the loop:
\* if path.exists(): return; TIMEOUT = 60; start = time.time()
CallDownloadImage(url, path, colorspace, script) ==
    /\ StartCall("image", url, path)
    /\ fSlot' = colorspace
    /\ fElapsed' = 0
    /\ fScript' = script
    /\ fServed' = 0
    /\ IF PathExists(path)
         THEN fPc' = "returned" /\ fOutcome' = "skipped"
         ELSE fPc' = "loop" /\ fOutcome' = "none"
    /\ UNCHANGED <<disk, fUrls, fIdx, fSessAuth, fRetries, fSub, fSubIdx>>
    /\ UNCHANGED notFetchVars

\* The dispatch of one iteration of the while True loop on its response.
ImageDispatch(resp) ==
       IF Ok(resp) /\ HasJsonContentType(resp)
         THEN \* _fetch_multiple_files up to its loop
              IF ~resp.hasUrls
                THEN /\ fPc' = "raised" /\ fOutcome' = "malformed"
                     /\ UNCHANGED <<disk, fSub, fSubIdx>>
                ELSE /\ fSub' = resp.urls
                     /\ fSubIdx' = 1
                     /\ IF resp.urls = <<>>
                          THEN fPc' = "returned" /\ fOutcome' = "written"
                          ELSE fPc' = "multi" /\ fOutcome' = "none"
                     /\ disk' = MakeDir(disk, WithSuffix(fPath, ""))
         ELSE IF Ok(resp)
         THEN /\ disk' = WriteFile(disk, fPath, resp, fSlot)
              /\ fPc' = "returned" /\ fOutcome' = "written"
              /\ UNCHANGED <<fSub, fSubIdx>>
         ELSE IF IsFatal(resp.status)
         THEN /\ fPc' = "raised" /\ fOutcome' = "fatal"
              /\ UNCHANGED <<disk, fSub, fSubIdx>>
         ELSE IF TimedOut(fElapsed')
         THEN /\ fPc' = "raised" /\ fOutcome' = "timeout"
              /\ UNCHANGED <<disk, fSub, fSubIdx>>
         ELSE /\ fPc' = "sleep" /\ fOutcome' = "none"
              /\ UNCHANGED <<disk, fSub, fSubIdx>>

\* One iteration of the while True loop, up to time.sleep(1): the request and the
\* dispatch on its response.
ImageRequest ==
    /\ fOp = "image" /\ fPc = "loop"
    /\ fLast' = [by |-> "_download_image", url |-> fUrl, auth |-> ImageAuth(fUrl),
                 status |-> ServerAnswer(fScript, fServed + 1).status]
    /\ fServed' = fServed + 1
    /\ fReqs' = fReqs + 1
    /\ fElapsed' = fElapsed + fScript.seconds
    /\ ImageDispatch(ServerAnswer(fScript, fServed + 1))
    /\ UNCHANGED <<fOp, fUrl, fUrls, fIdx, fPath, fSlot, fSessAuth, fRetries, fScript,
                   fSleeps, fDisk0, fCalls>>
    /\ UNCHANGED notFetchVars

\* time.sleep(1)
ImageSleep ==
    /\ fOp = "image" /\ fPc = "sleep"
    /\ fElapsed' = fElapsed + 1
    /\ fSleeps' = fSleeps + 1
    /\ fPc' = "loop"
    /\ UNCHANGED <<disk, fOp, fOutcome, fUrl, fUrls, fIdx, fPath, fSlot, fSessAuth, fRetries,
                   fScript, fServed, fSub, fSubIdx, fLast, fReqs, fDisk0, fCalls>>
    /\ UNCHANGED notFetchVars

\* _fetch_multiple_files, one iteration of for url in urls:
\* filename = last path segment; response = requests.get(url, stream=True)
FetchSubFile(status) ==
    /\ fOp = "image" /\ fPc = "multi"
    /\ LET url == fSub[fSubIdx]
           path == Child(WithSuffix(fPath, ""), url.file)
       IN /\ fLast' = [by |-> "_fetch_multiple_files", url |-> url, auth |-> FALSE,
                       status |-> status]
          /\ fReqs' = fReqs + 1
          /\ IF Ok(ErrorResponse(status))
               THEN /\ disk' = WriteFile(disk, path, OkBinary, fSlot)
                    /\ fSubIdx' = fSubIdx + 1
                    /\ IF fSubIdx = Len(fSub)
                         THEN fPc' = "returned" /\ fOutcome' = "written"
                         ELSE fPc' = "multi" /\ fOutcome' = "none"
               ELSE /\ fPc' = "raised" /\ fOutcome' = "status"
                    /\ UNCHANGED <<disk, fSubIdx>>
    /\ UNCHANGED <<fOp, fUrl, fUrls, fIdx, fPath, fSlot, fElapsed, fSessAuth, fRetries, fScript,
                   fServed, fSub, fSleeps, fDisk0, fCalls>>
    /\ UNCHANGED notFetchVars

\* session.mount("https://", HTTPAdapter(max_retries=retries)): the retrying adapter
\* serves the urls that start with "https://"; any other url is served by the
\* session's default adapter, which does not retry.
AdapterRetries(url) == IF url.scheme = "https" THEN RetryTotal ELSE 0
AdapterForcelist(url) == IF url.scheme = "https" THEN StatusForcelist ELSE {}

\* if "token" in url: session.get(url)
\* else: session.headers = {"Authorization": ...}; session.get(url)
\* The headers of the session stay as they are for a url with a token.
SessionAuth(sessionHeader, url) == IF HasToken(url) THEN sessionHeader ELSE TRUE

\* _download_video_segment_file(url, api_key, path) up to session.get: a new session
CallDownloadVideoSegmentFile(url, path, script) ==
    /\ StartCall("segment", url, path)
    /\ fSessAuth' = SessionAuth(FALSE, url)
    /\ fRetries' = AdapterRetries(url)
    /\ fScript' = script
    /\ fServed' = 0
    /\ fPc' = "send"
    /\ fOutcome' = "none"
    /\ UNCHANGED <<disk, fUrls, fIdx, fSlot, fElapsed, fSub, fSubIdx>>
    /\ UNCHANGED notFetchVars

\* One attempt of session.get(url): the request goes out with the session's headers.
\* On a status of its forcelist the adapter retries while it has retries left, and
\* raises (RetryError) when it has none; any other response goes to the caller.
SessionAttempt(by) ==
    /\ fPc = "send"
    /\ fServed' = fServed + 1
    /\ fReqs' = fReqs + 1
    /\ fLast' = [by |-> by, url |-> fUrl, auth |-> fSessAuth,
                 status |-> ServerAnswer(fScript, fServed + 1).status]

Retried(resp) == resp.status \in AdapterForcelist(fUrl)

\* _download_video_segment_file: session.get and what follows it
SegmentSend ==
    /\ fOp = "segment"
    /\ SessionAttempt("_download_video_segment_file")
    /\ LET resp == ServerAnswer(fScript, fServed + 1)
       IN IF Retried(resp)
            THEN IF fRetries > 0
                   THEN /\ fRetries' = fRetries - 1
                        /\ UNCHANGED <<disk, fPc, fOutcome>>
                   ELSE /\ fPc' = "raised" /\ fOutcome' = "retry_error"
                        /\ UNCHANGED <<disk, fRetries>>
            ELSE IF ~Ok(resp) \/ IsFatal(resp.status)
            THEN /\ fPc' = "raised" /\ fOutcome' = "status"
                 /\ UNCHANGED <<disk, fRetries>>
            ELSE /\ disk' = WriteFile(disk, fPath, resp, "")
                 /\ fPc' = "returned" /\ fOutcome' = "written"
                 /\ UNCHANGED fRetries
    /\ UNCHANGED <<fOp, fUrl, fUrls, fIdx, fPath, fSlot, fElapsed, fSessAuth, fScript, fSub,
                   fSubIdx, fSleeps, fDisk0, fCalls>>
    /\ UNCHANGED notFetchVars

\* download_manifest_txts(urls, api_key, folder) up to the loop: paths = [], a new session
CallDownloadManifestTxts(urls, folder) ==
    /\ StartCall("manifests", NoUrl, folder)
    /\ fUrls' = urls
    /\ fIdx' = 0
    /\ fSessAuth' = FALSE
    /\ fPc' = "next"
    /\ fOutcome' = "none"
    /\ UNCHANGED <<disk, fSlot, fElapsed, fRetries, fScript, fServed, fSub, fSubIdx>>
    /\ UNCHANGED notFetchVars

\* for index, url in enumerate(urls): the next url, up to its session.get; after the
\* last url, return paths. `script` is the server behind that url.
ManifestNextUrl(script) ==
    /\ fOp = "manifests" /\ fPc = "next"
    /\ IF fIdx < Len(fUrls)
         THEN /\ script \in Scripts
              /\ fUrl' = fUrls[fIdx + 1]
              /\ fSessAuth' = SessionAuth(fSessAuth, fUrls[fIdx + 1])
              /\ fRetries' = AdapterRetries(fUrls[fIdx + 1])
              /\ fScript' = script
              /\ fServed' = 0
              /\ fPc' = "send"
              /\ UNCHANGED fOutcome
         ELSE /\ script = NoScript
              /\ fPc' = "returned" /\ fOutcome' = "written"
              /\ UNCHANGED <<fUrl, fSessAuth, fRetries, fScript, fServed>>
    /\ UNCHANGED <<disk, fOp, fUrls, fIdx, fPath, fSlot, fElapsed, fSub, fSubIdx, fLast, fReqs,
                   fSleeps, fDisk0, fCalls>>
    /\ UNCHANGED notFetchVars

\* download_manifest_txts: session.get of the current url and what follows it
ManifestSend ==
    /\ fOp = "manifests"
    /\ SessionAttempt("download_manifest_txts")
    /\ LET resp == ServerAnswer(fScript, fServed + 1)
       IN IF Retried(resp)
            THEN IF fRetries > 0
                   THEN /\ fRetries' = fRetries - 1
                        /\ UNCHANGED <<disk, fPc, fOutcome, fIdx>>
                   ELSE /\ fPc' = "raised" /\ fOutcome' = "retry_error"
                        /\ UNCHANGED <<disk, fRetries, fIdx>>
            ELSE IF ~Ok(resp) \/ IsFatal(resp.status)
            THEN /\ fPc' = "raised" /\ fOutcome' = "status"
                 /\ UNCHANGED <<disk, fRetries, fIdx>>
            ELSE IF resp.kind = "empty"
            THEN /\ fPc' = "raised" /\ fOutcome' = "empty"
                 /\ UNCHANGED <<disk, fRetries, fIdx>>
            ELSE /\ disk' = WriteFile(disk, Child(fPath, ManifestFileName(fIdx)), resp, "")
                 /\ fIdx' = fIdx + 1
                 /\ fPc' = "next"
                 /\ UNCHANGED <<fRetries, fOutcome>>
    /\ UNCHANGED <<fOp, fUrl, fUrls, fPath, fSlot, fElapsed, fSessAuth, fScript, fSub, fSubIdx,
                   fSleeps, fDisk0, fCalls>>
    /\ UNCHANGED notFetchVars

\* The call has returned or raised: its caller goes on, its locals are gone.
CallerContinues ==
    /\ fPc \in {"returned", "raised"}
    /\ fOp' = "idle"
    /\ fPc' = "idle"
    /\ fOutcome' = "none"
    /\ fUrl' = NoUrl
    /\ fUrls' = <<>>
    /\ fIdx' = 0
    /\ fPath' = <<>>
    /\ fSlot' = ""
    /\ fElapsed' = 0
    /\ fSessAuth' = FALSE
    /\ fRetries' = 0
    /\ fScript' = NoScript
    /\ fServed' = 0
    /\ fSub' = <<>>
    /\ fSubIdx' = 1
    /\ fLast' = NoRequest
    /\ fReqs' = 0
    /\ fSleeps' = 0
    /\ fDisk0' = <<>>
    /\ UNCHANGED <<disk, fCalls>>
    /\ UNCHANGED notFetchVars

\* The calls the fetch layer may receive, and the servers behind their urls.
ImageCalls == Urls \X {"", "RG16"} \X ImageScripts
SegmentCalls == Urls \X Scripts
ManifestCalls == SeqsUpTo(Urls, MaxUrls)
\* Behind a manifest url: the servers whose failures are of the retried kind.
ManifestScripts == {sc \in Scripts : sc.code = 503} \cup {NoScript}

DownloadImage ==
    /\ fPc = "idle"
    /\ \E c \in ImageCalls : CallDownloadImage(c[1], ImagePath, c[2], c[3])

DownloadVideoSegmentFile ==
    /\ fPc = "idle"
    /\ \E c \in SegmentCalls : CallDownloadVideoSegmentFile(c[1], SegmentPath, c[2])

DownloadManifestTxts ==
    /\ fPc = "idle"
    /\ \E urls \in ManifestCalls : CallDownloadManifestTxts(urls, ManifestFolder)

ManifestLoop ==
    /\ fPc = "next"
    /\ \E script \in ManifestScripts : ManifestNextUrl(script)

SubFileFetch ==
    /\ fPc = "multi"
    /\ \E status \in {200, 404, 503} : FetchSubFile(status)

NextFetch ==
    \/ DownloadImage
    \/ ImageRequest
    \/ ImageSleep
    \/ SubFileFetch
    \/ DownloadVideoSegmentFile
    \/ SegmentSend
    \/ DownloadManifestTxts
    \/ ManifestLoop
    \/ ManifestSend
    \/ CallerContinues

\* ============================================================ planner
\* src/darwin/dataset/download_manager.py:40-365

\* A Path object: whether it is absolute, and its components.
PurePath(abs, parts) == [abs |-> abs, parts |-> parts]
Dir(name) == FileName(name, "")
\* a / b: an absolute right operand replaces the left one
Join(a, b) == IF b.abs THEN b ELSE PurePath(a.abs, a.parts \o b.parts)
JoinName(a, name) == Join(a, PurePath(FALSE, <<name>>))
\* Path.resolve().absolute(): a relative path is taken from the working directory
Resolve(path) == IF path.abs THEN path ELSE PurePath(TRUE, cwd \o path.parts)
\* The file of the disk a Path object names.
FsKey(path) == Resolve(path).parts
\* remote_path.lstrip('/\\'), and Path(sub_path).relative_to(Path(sub_path).anchor):
\* the remote path (the sequence of its folders) without its leading "/"
RelativeRemote(remote_path) ==
    PurePath(FALSE, [i \in 1..Len(remote_path) |-> Dir(remote_path[i])])

IsPrefix(pre, seq) == Len(pre) <= Len(seq) /\ SubSeq(seq, 1, Len(pre)) = pre

\* root.glob("*") or root.rglob("*"): the files and the directories below root, as
\* Path objects that start with root as given
Glob(root, recursive, d) ==
    LET base == FsKey(root)
        below == {f \in DOMAIN d : IsPrefix(base, f) /\ Len(f) > Len(base)}
        found == UNION {{SubSeq(f, 1, n) :
                            n \in (Len(base) + 1)..(IF recursive THEN Len(f) ELSE Len(base) + 1)} :
                        f \in below}
    IN {Join(root, PurePath(FALSE, SubSeq(f, Len(base) + 1, Len(f)))) : f \in found}

\* A path that names a directory: one made by mkdir, or the parent of a file.
IsDirectory(d, path) == IF path \in DOMAIN d THEN d[path] = "dir" ELSE TRUE

\* SUPPORTED_IMAGE_EXTENSIONS
ImageExtensions == {".png", ".jpeg", ".jpg", ".jfif", ".tif", ".tiff", ".bmp", ".svs"}
IsImageExtensionAllowed(suffix) == suffix \in ImageExtensions

\* sanitize_filename on a unix-like OS: < > " / \ | ? * become _
SanitizeString(str) ==
    CASE str = "a?b" -> "a_b"
      [] str = "a*b" -> "a_b"
      [] OTHER -> str
Sanitize(name) == FileName(SanitizeString(name.stem), SanitizeString(name.suffix))

\* f"{i:07d}.png" and f".{index:07d}.ts"
FrameFileName(i) == FileName(<<"0000000", "0000001", "0000002", "0000003">>[i + 1], ".png")
SegmentFileName(i) == FileName(<<".0000000", ".0000001", ".0000002", ".0000003">>[i + 1], ".ts")

\* The key slots are sorted by, slot.name or "0", as its rank among the names used.
SlotKey(name) ==
    CASE name \in {"", "0"} -> 0
      [] name = "1" -> 1
      [] name = "a" -> 2
      [] name = "b" -> 3

\* annotation.slots.sort(key=lambda slot: slot.name or "0"): stable
RECURSIVE InsertSlot(_, _)
InsertSlot(slot, s) ==
    IF s = <<>> THEN <<slot>>
    ELSE IF SlotKey(s[Len(s)].name) <= SlotKey(slot.name) THEN Append(s, slot)
    ELSE Append(InsertSlot(slot, SubSeq(s, 1, Len(s) - 1)), s[Len(s)])

\* Mutant of SortSlots: the slots stay in the order of the annotation file.
SortSlotsKeepOrder(s) == s

RECURSIVE SortSlots(_)
SortSlots(s) ==
    IF s = <<>> THEN <<>>
    ELSE InsertSlot(s[Len(s)], SortSlots(SubSeq(s, 1, Len(s) - 1)))

\* _parse_manifests as a function of the lines of its files, read in order.
RECURSIVE ParsedDict(_)
ParsedDict(lines) ==
    IF lines = <<>> THEN [dict |-> <<>>, visible |-> 0]
    ELSE LET before == ParsedDict(SubSeq(lines, 1, Len(lines) - 1))
             line == lines[Len(lines)]
         IN [dict |-> DictAppend(before.dict, line.segment, ManifestItem(line, before.visible)),
             visible |-> IF line.visibility # 0 THEN before.visible + 1 ELSE before.visible]

RECURSIVE AllLines(_)
AllLines(files) ==
    IF files = <<>> THEN <<>>
    ELSE AllLines(SubSeq(files, 1, Len(files) - 1)) \o files[Len(files)]

ParseManifests(files) == WithAbsoluteFrames(SegmentList(ParsedDict(AllLines(files)).dict))

\* A download function: functools.partial(fn, ...) with its url, its destination
\* path and, for a video segment, its SegmentManifest.
NoManifest == [segment |-> NONE, total_frames |-> 0, items |-> <<>>]
Task(fn, url, path, manifest) == [fn |-> fn, url |-> url, path |-> path, manifest |-> manifest]

\* What planning one annotation gives: the list of download functions, or an exception.
Planned(tasks) == [ok |-> TRUE, tasks |-> tasks]
PlanRaises == [ok |-> FALSE, tasks |-> <<>>]

\* The long-video branch: get_segment_manifests, then one function per SegmentManifest.
\* slot.frame_manifest holds what the manifest urls serve; the downloads are taken
\* to succeed.
LongVideoTasks(slot, video_path) ==
    IF ~slot.has_frame_manifest THEN PlanRaises
    ELSE LET segs == ParseManifests(slot.frame_manifest)
         IN IF Len(segs) > Len(slot.segments) THEN PlanRaises
            ELSE Planned([k \in 1..Len(segs) |->
                    Task("_download_and_extract_video_segment", slot.segments[k],
                         JoinName(video_path, SegmentFileName(k - 1)), segs[k])])

\* for i, frame_url in enumerate(slot.frame_urls)
FrameTasks(slot, video_path) ==
    Planned([i \in 1..Len(slot.frame_urls) |->
        Task("_download_image", slot.frame_urls[i], JoinName(video_path, FrameFileName(i - 1)),
             NoManifest)])

\* _download_single_slot_from_json_annotation
SingleSlotTasks(annotation, slots, parent_path) ==
    LET slot == slots[1]
    IN IF options.video_frames /\ slot.type # "image"
         THEN LET video_path == JoinName(parent_path, Dir(annotation.stem))
              IN IF slot.frame_urls = <<>>
                   THEN LongVideoTasks(slot, video_path)
                   ELSE FrameTasks(slot, video_path)
         ELSE IF Len(slot.source_files) > 0
           THEN LET image == slot.source_files[1]
                    filename == IF ~options.use_folders
                                  THEN FileName(annotation.stem, image.file_name.suffix)
                                  ELSE image.file_name
                    chosen == IF filename = NoFile THEN annotation.filename ELSE filename
                IN Planned(<<Task("_download_image_with_trace", image.url,
                                  JoinName(parent_path, Sanitize(chosen)), NoManifest)>>)
           ELSE Planned(<<>>)

\* _download_all_slots_from_json_annotation, one iteration of for slot in annotation.slots
SlotTasks(annotation, slot, parent_path) ==
    IF slot.name = "" THEN PlanRaises
    ELSE LET slot_path == JoinName(JoinName(parent_path, Sanitize(annotation.filename)),
                                   Sanitize(Dir(slot.name)))
         IN IF options.video_frames /\ slot.type # "image"
              THEN LET video_path == JoinName(slot_path, Dir("sections"))
                   IN IF slot.frame_urls = <<>>
                        THEN LongVideoTasks(slot, video_path)
                        ELSE FrameTasks(slot, video_path)
              ELSE Planned([i \in 1..Len(slot.source_files) |->
                      Task("_download_image_with_trace", slot.source_files[i].url,
                           JoinName(slot_path, Sanitize(slot.source_files[i].file_name)),
                           NoManifest)])

\* _download_all_slots_from_json_annotation
RECURSIVE AllSlotsTasks(_, _, _)
AllSlotsTasks(annotation, slots, parent_path) ==
    IF slots = <<>> THEN Planned(<<>>)
    ELSE LET before == AllSlotsTasks(annotation, SubSeq(slots, 1, Len(slots) - 1), parent_path)
             last == SlotTasks(annotation, slots[Len(slots)], parent_path)
         IN IF before.ok /\ last.ok THEN Planned(before.tasks \o last.tasks) ELSE PlanRaises

\* _download_image_from_json_annotation (through lazy_download_image_from_annotation)
DownloadImageFromJsonAnnotation(annotation, forceSlots) ==
    LET sub_path == IF options.use_folders THEN RelativeRemote(annotation.remote_path)
                    ELSE PurePath(FALSE, <<>>)
        parent_path == Join(images_path, sub_path)
        slots == SortSlots(annotation.slots)
    IN IF Len(slots) > 0
         THEN IF options.ignore_slots THEN SingleSlotTasks(annotation, slots, parent_path)
              ELSE IF forceSlots THEN AllSlotsTasks(annotation, slots, parent_path)
              ELSE SingleSlotTasks(annotation, slots, parent_path)
         ELSE Planned(<<>>)

\* planned_image_path = images_path
\*     / Path(annotation.remote_path.lstrip('/\\')).resolve().absolute()
\*     / Path(annotation.filename)
PlannedImagePath(annotation) ==
    JoinName(Join(images_path, Resolve(RelativeRemote(annotation.remote_path))),
             annotation.filename)

\* ---- the inputs of the planner
SourceFile(name, url) == [file_name |-> name, url |-> url]
Slot(name, type, source_files, frame_urls, has_frame_manifest, frame_manifest, segs) ==
    [name |-> name, type |-> type, source_files |-> source_files, frame_urls |-> frame_urls,
     has_frame_manifest |-> has_frame_manifest, frame_manifest |-> frame_manifest,
     segments |-> segs]
ImageSlot(name, source_files) == Slot(name, "image", source_files, <<>>, FALSE, <<>>, <<>>)
Annotation(stem, filename, remote_path, slots) ==
    [stem |-> stem, filename |-> filename, remote_path |-> remote_path, slots |-> slots]
ManifestLine(frame, segment, visibility) ==
    [frame |-> frame, segment |-> segment, visibility |-> visibility, timestamp |-> 0]

\* The annotation files a release may hold.
AnnotationFiles ==
    { Annotation("x", FileName("x", ".png"), <<>>,
        <<ImageSlot("0", <<SourceFile(FileName("x", ".png"), "url_x")>>)>>),
      Annotation("y", FileName("y", ".png"), <<"dir">>,
        <<ImageSlot("", <<SourceFile(FileName("y", ".png"), "url_y")>>)>>),
      Annotation("z", FileName("z", ".png"), <<>>,
        <<ImageSlot("b", <<SourceFile(FileName("z2", ".png"), "url_z2")>>),
          ImageSlot("a", <<SourceFile(FileName("z1", ".png"), "url_z1")>>)>>),
      Annotation("u", FileName("u", ".png"), <<>>,
        <<ImageSlot("0", <<SourceFile(FileName("a?b", ".png"), "url_u1"),
                           SourceFile(FileName("a*b", ".png"), "url_u2")>>)>>),
      Annotation("v", FileName("v", ".mp4"), <<>>,
        <<Slot("0", "video", <<SourceFile(FileName("v", ".mp4"), "url_v")>>,
               <<"url_f0", "url_f1">>, FALSE, <<>>, <<>>)>>),
      Annotation("w", FileName("w", ".mp4"), <<>>,
        <<Slot("0", "video", <<SourceFile(FileName("w", ".mp4"), "url_w")>>, <<>>, TRUE,
               << <<ManifestLine(0, 1, 1), ManifestLine(0, 0, 1)>> >>,
               <<"url_s0", "url_s1">>)>>) }

\* The lists of up to MaxAnnotations different annotation files, in any order.
AnnotationLists ==
    {l \in SeqsUpTo(AnnotationFiles, MaxAnnotations) :
        \A i, j \in 1..Len(l) : i # j => l[i] # l[j]}

\* Where the process runs and how images_path was given.
Environments ==
    { [cwd |-> <<Dir("data")>>, images_path |-> PurePath(TRUE, <<Dir("data"), Dir("images")>>)],
      [cwd |-> <<Dir("data"), Dir("images")>>,
       images_path |-> PurePath(TRUE, <<Dir("data"), Dir("images")>>)],
      [cwd |-> <<Dir("data")>>, images_path |-> PurePath(FALSE, <<Dir("images")>>)] }

\* The files images_path may hold from an earlier pull, relative to images_path.
EarlierFiles ==
    { <<FileName("x", ".png")>>,
      <<FileName("y", ".png")>>,
      <<Dir("dir"), FileName("y", ".png")>>,
      <<FileName("z", ".png"), Dir("a"), FileName("z1", ".png")>>,
      <<FileName("stray", ".png")>> }

Options ==
    [force_replace : BOOLEAN, remove_extra : BOOLEAN, use_folders : BOOLEAN,
     video_frames : BOOLEAN, force_slots : BOOLEAN, ignore_slots : BOOLEAN]

PlanIdle ==
    /\ cwd = <<>>
    /\ images_path = PurePath(TRUE, <<>>)
    /\ annotations = <<>>
    /\ options = [force_replace |-> FALSE, remove_extra |-> FALSE, use_folders |-> FALSE,
                  video_frames |-> FALSE, force_slots |-> FALSE, ignore_slots |-> FALSE]
    /\ force_slots = FALSE
    /\ pPc = "idle"
    /\ pIndex = 1
    /\ existing_images = {}
    /\ annotations_to_download_path = <<>>
    /\ download_functions = <<>>
    /\ pDisk0 = <<>>

\* download_all_images_from_annotations is called.
InitPlanVars ==
    /\ \E env \in Environments :
          /\ cwd = env.cwd
          /\ images_path = env.images_path
          /\ \E files \in SUBSET EarlierFiles :
                /\ Cardinality(files) <= MaxExisting
                /\ disk = [f \in {FsKey(images_path) \o rel : rel \in files} |-> "old"]
                /\ pDisk0 = disk
    /\ annotations \in AnnotationLists
    /\ options \in Options
    /\ force_slots = options.force_slots
    /\ pPc = "scan"
    /\ pIndex = 1
    /\ existing_images = {}
    /\ annotations_to_download_path = <<>>
    /\ download_functions = <<>>

\* Path(images_path).mkdir(exist_ok=True) and the scan of the images folder:
\* unfiltered_files = images_path.rglob("*") if use_folders else images_path.glob("*")
\* existing_images = {image for image in unfiltered_files if is_image_extension_allowed(...)}
ScanImages ==
    /\ pPc = "scan"
    /\ existing_images' =
          {image \in Glob(images_path, options.use_folders, disk) :
              IsImageExtensionAllowed(image.parts[Len(image.parts)].suffix)}
    /\ pPc' = "filter"
    /\ pIndex' = 1
    /\ UNCHANGED <<disk, cwd, images_path, annotations, options, force_slots,
                   annotations_to_download_path, download_functions, pDisk0>>
    /\ UNCHANGED notPlanVars

\* Mutant of Escalates: the filter loop never sets force_slots.
EscalatesNever(annotation) == FALSE

\* if len(annotation.slots) > 1: force_slots = True
\* for slot in annotation.slots: if len(slot.source_files) > 1: force_slots = True
Escalates(annotation) ==
    \/ Len(annotation.slots) > 1
    \/ \E k \in 1..Len(annotation.slots) : Len(annotation.slots[k].source_files) > 1

\* if not force_replace: ... if planned_image_path in existing_images: continue
SkipsAnnotation(annotation) ==
    ~options.force_replace /\ PlannedImagePath(annotation) \in existing_images

\* One iteration of for annotation_path in annotations_path.glob(...)
FilterAnnotation ==
    /\ pPc = "filter"
    /\ pIndex \in 1..Len(annotations)
    /\ IF SkipsAnnotation(annotations[pIndex])
         THEN UNCHANGED <<annotations_to_download_path, force_slots>>
         ELSE /\ annotations_to_download_path' = Append(annotations_to_download_path, pIndex)
              /\ force_slots' = (force_slots \/ Escalates(annotations[pIndex]))
    /\ pIndex' = pIndex + 1
    /\ UNCHANGED <<disk, cwd, images_path, annotations, options, pPc, existing_images,
                   download_functions, pDisk0>>
    /\ UNCHANGED notPlanVars

\* Mutant of Unlinked: nothing is deleted.
UnlinkedNothing(d, paths) == d

\* The files of disk d without those that paths name.
Unlinked(d, paths) ==
    [f \in DOMAIN d \ {FsKey(path) : path \in paths} |-> d[f]]

\* if remove_extra: every existing image whose stem is no annotation's stem is unlinked,
\* in the order the set yields them; unlink() of a directory raises.
RemoveExtra ==
    /\ pPc = "filter"
    /\ pIndex > Len(annotations)
    /\ LET annotations_downloaded_stem == {annotations[i].stem : i \in 1..Len(annotations)}
           extra == {image \in existing_images :
                        image.parts[Len(image.parts)].stem \notin annotations_downloaded_stem}
           dirs == {image \in extra : IsDirectory(disk, FsKey(image))}
       IN IF options.remove_extra /\ dirs # {}
            THEN /\ \E gone \in SUBSET (extra \ dirs) : disk' = Unlinked(disk, gone)
                 /\ pPc' = "raised"
            ELSE /\ disk' = IF options.remove_extra THEN Unlinked(disk, extra) ELSE disk
                 /\ pPc' = "build"
    /\ pIndex' = 1
    /\ UNCHANGED <<cwd, images_path, annotations, options, force_slots, existing_images,
                   annotations_to_download_path, download_functions, pDisk0>>
    /\ UNCHANGED notPlanVars

\* One iteration of for annotation_path in annotations_to_download_path:
\* download_functions.extend(lazy_download_image_from_annotation(...))
BuildDownloadFunctions ==
    /\ pPc = "build"
    /\ pIndex \in 1..Len(annotations_to_download_path)
    /\ LET planned == DownloadImageFromJsonAnnotation(
                          annotations[annotations_to_download_path[pIndex]], force_slots)
       IN IF planned.ok
            THEN /\ download_functions' = download_functions \o planned.tasks
                 /\ pIndex' = pIndex + 1
                 /\ UNCHANGED pPc
            ELSE /\ pPc' = "raised"
                 /\ UNCHANGED <<download_functions, pIndex>>
    /\ UNCHANGED <<disk, cwd, images_path, annotations, options, force_slots, existing_images,
                   annotations_to_download_path, pDisk0>>
    /\ UNCHANGED notPlanVars

\* return lambda: download_functions, len(download_functions)
ReturnDownloadFunctions ==
    /\ pPc = "build"
    /\ pIndex > Len(annotations_to_download_path)
    /\ pPc' = "done"
    /\ UNCHANGED <<disk, cwd, images_path, annotations, options, force_slots, pIndex,
                   existing_images, annotations_to_download_path, download_functions, pDisk0>>
    /\ UNCHANGED notPlanVars

NextPlan ==
    \/ ScanImages
    \/ FilterAnnotation
    \/ RemoveExtra
    \/ BuildDownloadFunctions
    \/ ReturnDownloadFunctions

\* ============================================================ pull
\* src/darwin/dataset/remote_dataset.py:162-283

\* What pull has returned before it returns.
NoReturn == [generator |-> "", count |-> 0]

PullIdle ==
    /\ pull = [blocking |-> FALSE, multi_threaded |-> FALSE]
    /\ plPc = "idle"
    /\ plRan = <<>>
    /\ plReturn = NoReturn
    /\ plYield = <<>>
    /\ plCalls = 0

\* The arguments pull hands to download_all_images_from_annotations: force_replace,
\* remove_extra, use_folders and video_frames; force_slots and ignore_slots keep
\* their default False. Still-image pulls that leave extra files alone.
PullOptions ==
    {o \in Options : ~o.force_slots /\ ~o.ignore_slots /\ ~o.video_frames /\ ~o.remove_extra}

\* pull has reached the call of download_all_images_from_annotations;
\* self.local_images_path is an absolute path.
InitPullVars ==
    /\ pull \in [blocking : BOOLEAN, multi_threaded : BOOLEAN]
    /\ plPc = "plan"
    /\ plRan = <<>>
    /\ plReturn = NoReturn
    /\ plYield = <<>>
    /\ plCalls = 0
    /\ \E env \in {e \in Environments : e.images_path.abs} :
          /\ cwd = env.cwd
          /\ images_path = env.images_path
          /\ \E files \in SUBSET EarlierFiles :
                /\ Cardinality(files) <= MaxExisting
                /\ disk = [f \in {FsKey(images_path) \o rel : rel \in files} |-> "old"]
                /\ pDisk0 = disk
    /\ annotations \in AnnotationLists
    /\ options \in PullOptions
    /\ force_slots = options.force_slots
    /\ pPc = "scan"
    /\ pIndex = 1
    /\ existing_images = {}
    /\ annotations_to_download_path = <<>>
    /\ download_functions = <<>>

\* Mutant of Blocking: pull downloads whatever blocking says.
BlockingAlways(args) == TRUE

\* if blocking:
Blocking(args) == args.blocking

\* progress, count = download_all_images_from_annotations(...) has returned:
\* if count == 0: return None, count
\* if blocking: exhaust_generator(progress=progress(), ...) else: return progress, count
PullPlanned ==
    /\ plPc = "plan" /\ pPc = "done"
    /\ LET count == Len(download_functions)
       IN IF count = 0
            THEN /\ plPc' = "returned"
                 /\ plReturn' = [generator |-> "None", count |-> count]
                 /\ UNCHANGED plRan
            ELSE IF Blocking(pull)
            THEN /\ plPc' = "exhaust"
                 /\ plRan' = [k \in 1..count |-> "new"]
                 /\ UNCHANGED plReturn
            ELSE /\ plPc' = "returned"
                 /\ plReturn' = [generator |-> "progress", count |-> count]
                 /\ UNCHANGED plRan
    /\ UNCHANGED <<disk, pull, plYield, plCalls>>
    /\ UNCHANGED notPullVars

\* download_all_images_from_annotations raised: pull does not catch it.
PullPlanRaised ==
    /\ plPc = "plan" /\ pPc = "raised"
    /\ plPc' = "raised"
    /\ UNCHANGED <<disk, pull, plRan, plReturn, plYield, plCalls>>
    /\ UNCHANGED notPullVars

\* What the server says when a download function asks for its url.
Answers == {"ok", "fatal"}

\* _download_image_with_trace / _download_image, run to its end: nothing is asked
\* and nothing written when the destination exists; otherwise the body is written,
\* or the call raises.
RunDownloadFunction(task, answer) ==
    LET path == FsKey(task.path)
    IN IF PathExists(path) THEN [disk |-> disk, result |-> "skipped"]
       ELSE IF answer = "ok"
         THEN [disk |-> WriteFile(disk, path, OkBinary, ""), result |-> "written"]
         ELSE [disk |-> disk, result |-> "raised"]

\* The download functions exhaust_generator may run next: any one not yet run in
\* the pool, the first one not yet run in sequential mode.
Runnable ==
    LET new == {k \in 1..Len(plRan) : plRan[k] = "new"}
    IN IF pull.multi_threaded THEN new
       ELSE {k \in new : \A j \in new : k <= j}

\* exhaust_generator runs one download function (_f). In the pool its exception is
\* kept in its AsyncResult; in sequential mode it leaves exhaust_generator and pull.
PullRunTask(k, answer) ==
    /\ plPc = "exhaust"
    /\ k \in Runnable
    /\ LET ran == RunDownloadFunction(download_functions[k], answer)
       IN /\ disk' = ran.disk
          /\ plRan' = [plRan EXCEPT ![k] = ran.result]
          /\ plPc' = IF ran.result = "raised" /\ ~pull.multi_threaded
                       THEN "raised" ELSE "exhaust"
    /\ UNCHANGED <<pull, plReturn, plYield, plCalls>>
    /\ UNCHANGED notPullVars

\* exhaust_generator has returned; pull drops its result: return None, count
PullReturn ==
    /\ plPc = "exhaust"
    /\ Runnable = {}
    /\ plPc' = "returned"
    /\ plReturn' = [generator |-> "None", count |-> Len(download_functions)]
    /\ UNCHANGED <<disk, pull, plRan, plYield, plCalls>>
    /\ UNCHANGED notPullVars

\* The caller calls the callable pull returned: lambda: download_functions
CallProgress ==
    /\ plPc = "returned"
    /\ plReturn.generator = "progress"
    /\ plCalls < MaxCalls
    /\ plYield' = download_functions
    /\ plCalls' = plCalls + 1
    /\ UNCHANGED <<disk, pull, plPc, plRan, plReturn>>
    /\ UNCHANGED notPullVars

NextPull ==
    \/ ScanImages
    \/ FilterAnnotation
    \/ RemoveExtra
    \/ BuildDownloadFunctions
    \/ ReturnDownloadFunctions
    \/ PullPlanned
    \/ PullPlanRaised
    \/ \E k \in 1..Len(plRan), answer \in Answers : PullRunTask(k, answer)
    \/ PullReturn
    \/ CallProgress

\* ============================================================ pull: the release
\* src/darwin/dataset/remote_dataset.py:210-257

\* The image filename stems the annotation files of a release archive may name.
Stems == {"x", "y"}

\* What pull finds of the release on the local disk: release_dir, its annotations
\* folder and the stems of the files in it, its lists folder, and what
\* local_releases_path / "latest" is (nothing, a symlink and where to, a directory).
LocalReleases ==
    {l \in [release_dir : BOOLEAN, annotations_dir : BOOLEAN, annotations : SUBSET Stems,
            lists : BOOLEAN, latest : {"none", "this", "other", "dir"}] :
        /\ l.annotations_dir => l.release_dir
        /\ l.lists => l.annotations_dir
        /\ l.annotations # {} => l.annotations_dir}

Releases == [format : {"json", "xml", "coco"}, latest : BOOLEAN]

NoException == [type |-> "", format |-> ""]
NoZip == [downloaded |-> FALSE, stems |-> {}]

ReleaseIdle ==
    /\ release = [format |-> "json", latest |-> FALSE]
    /\ only_annotations = FALSE
    /\ rPc = "idle"
    /\ rLocal = [release_dir |-> FALSE, annotations_dir |-> FALSE, annotations |-> {},
                 lists |-> FALSE, latest |-> "none"]
    /\ rLocal0 = rLocal
    /\ rZip = NoZip
    /\ rRaised = NoException

\* pull(release=release, only_annotations=...) is called; subset_filter_annotations_function
\* and subset_folder_name keep their default None.
InitRelease ==
    /\ release \in Releases
    /\ only_annotations \in BOOLEAN
    /\ rPc = "called"
    /\ rLocal \in LocalReleases
    /\ rLocal0 = rLocal
    /\ rZip = NoZip
    /\ rRaised = NoException

\* Mutant of IsJsonFormat: every format is taken.
IsJsonFormatAlways(format) == TRUE

\* release.format != "json", negated
IsJsonFormat(format) == format = "json"

\* if release.format != "json": raise UnsupportedExportFormat(release.format)
CheckFormat ==
    /\ rPc = "called"
    /\ IF IsJsonFormat(release.format)
         THEN /\ rPc' = "mkdir"
              /\ UNCHANGED rRaised
         ELSE /\ rPc' = "raised"
              /\ rRaised' = [type |-> "UnsupportedExportFormat", format |-> release.format]
    /\ UNCHANGED <<release, only_annotations, rLocal, rLocal0, rZip>>
    /\ UNCHANGED notReleaseVars

\* release_dir.mkdir(parents=True, exist_ok=True)
MakeReleaseDir ==
    /\ rPc = "mkdir"
    /\ rLocal' = [rLocal EXCEPT !.release_dir = TRUE]
    /\ rPc' = "download"
    /\ UNCHANGED <<release, only_annotations, rLocal0, rZip, rRaised>>
    /\ UNCHANGED notReleaseVars

\* zip_file_path = release.download_zip(tmp_dir / "dataset.zip"); z.extractall(tmp_dir):
\* the archive arrives in the temporary directory, or the download raises.
DownloadZip ==
    /\ rPc = "download"
    /\ \/ \E stems \in SUBSET Stems :
            /\ rZip' = [downloaded |-> TRUE, stems |-> stems]
            /\ rPc' = "extract"
            /\ UNCHANGED rRaised
       \/ /\ rPc' = "raised"
          /\ rRaised' = [type |-> "download_zip", format |-> ""]
          /\ UNCHANGED rZip
    /\ UNCHANGED <<release, only_annotations, rLocal, rLocal0>>
    /\ UNCHANGED notReleaseVars

\* if annotations_dir.exists(): shutil.rmtree(annotations_dir), a PermissionError is
\* printed; annotations_dir.mkdir(parents=True, exist_ok=False); every *.json of the
\* archive is moved to annotations_dir / f"{filename}{annotation_path.suffix}"
ReplaceAnnotations ==
    /\ rPc = "extract"
    /\ \/ /\ rLocal' = [rLocal EXCEPT !.annotations_dir = TRUE, !.annotations = rZip.stems]
          /\ rPc' = "lists"
          /\ UNCHANGED rRaised
       \/ /\ rLocal.annotations_dir
          /\ \E left \in SUBSET rLocal.annotations :
                rLocal' = [rLocal EXCEPT !.annotations = left]
          /\ rPc' = "raised"
          /\ rRaised' = [type |-> "FileExistsError", format |-> ""]
    /\ UNCHANGED <<release, only_annotations, rLocal0, rZip>>
    /\ UNCHANGED notReleaseVars

\* make_class_lists(release_dir); if release.latest: the "latest" symlink is replaced
\* by one to release_dir (symlink_to raises when "latest" is no symlink but exists)
MakeListsAndLatest ==
    /\ rPc = "lists"
    /\ IF release.latest /\ rLocal.latest = "dir"
         THEN /\ rLocal' = [rLocal EXCEPT !.lists = TRUE]
              /\ rPc' = "raised"
              /\ rRaised' = [type |-> "FileExistsError", format |-> ""]
         ELSE /\ rLocal' = [rLocal EXCEPT !.lists = TRUE,
                                       !.latest = IF release.latest THEN "this" ELSE @]
              /\ rPc' = "images"
              /\ UNCHANGED rRaised
    /\ UNCHANGED <<release, only_annotations, rLocal0, rZip>>
    /\ UNCHANGED notReleaseVars

\* if only_annotations: return None, 0; otherwise pull goes on to plan the downloads
OnlyAnnotations ==
    /\ rPc = "images"
    /\ rPc' = IF only_annotations THEN "returned" ELSE "plan"
    /\ UNCHANGED <<release, only_annotations, rLocal, rLocal0, rZip, rRaised>>
    /\ UNCHANGED notReleaseVars

NextRelease ==
    \/ CheckFormat
    \/ MakeReleaseDir
    \/ DownloadZip
    \/ ReplaceAnnotations
    \/ MakeListsAndLatest
    \/ OnlyAnnotations

\* ============================================================ frame extraction
\* src/darwin/dataset/download_manager.py:561-593

\* The SegmentManifests _parse_manifests gives for the lines of one segment.
SegmentManifests ==
    UNION {Range(ParseManifests(<<lines>>)) :
              lines \in SeqsUpTo([frame : Frames, segment : {0}, visibility : {0, 1},
                                  timestamp : Timestamps], MaxLines)}
    \cup {[segment |-> 0, total_frames |-> 0, items |-> <<>>]}

\* The container: whether VideoCapture can open it, and how many frames it decodes to.
Streams == [opened : BOOLEAN, frames : 0..MaxStream]

\* path, the destination of the segment container, and path.parent
ContainerPath == <<Dir("sections"), SegmentFileName(0)>>
ContainerParent == <<Dir("sections")>>

\* What cv2.imwrite stores for the decoded frame with the given index.
FrameContent(index) == <<"frame 0", "frame 1", "frame 2", "frame 3">>[index + 1]

\* Whether the name cv2 is bound where cv2.imwrite is evaluated: the module never
\* imports cv2, and the function imports only VideoCapture from it.
Cv2Bound == FALSE

ExtractIdle ==
    /\ xManifest = NoManifest
    /\ xStream = [opened |-> FALSE, frames |-> 0]
    /\ xOpenCV = FALSE
    /\ xPc = "idle"
    /\ frames_to_extract = <<>>
    /\ frame_index = 0
    /\ xReads = <<>>
    /\ xRaised = ""

\* _download_and_extract_video_segment(url, api_key, path, manifest) is called.
InitExtract ==
    /\ xManifest \in SegmentManifests
    /\ xStream \in Streams
    /\ xOpenCV \in BOOLEAN
    /\ xPc = "download"
    /\ frames_to_extract = <<>>
    /\ frame_index = 0
    /\ xReads = <<>>
    /\ xRaised = ""
    /\ disk = <<>>

\* _download_video_segment_file(url, api_key, path): the container is written to
\* path, or the call raises.
DownloadContainer ==
    /\ xPc = "download"
    /\ \/ /\ disk' = WriteFile(disk, ContainerPath, OkBinary, "")
          /\ xPc' = "import"
          /\ UNCHANGED xRaised
       \/ /\ xPc' = "raised"
          /\ xRaised' = "Exception"
          /\ UNCHANGED disk
    /\ UNCHANGED <<xManifest, xStream, xOpenCV, frames_to_extract, frame_index, xReads>>
    /\ UNCHANGED notExtractVars

\* dict([(item.frame, item.visible_frame) for item in manifest.items if item.visibility]):
\* of two visible items with the same frame the later one stays
FramesToExtract(items) ==
    LET visible == {i \in 1..Len(items) : items[i].visibility}
        last(f) == CHOOSE i \in visible :
                      /\ items[i].frame = f
                      /\ \A j \in visible : items[j].frame = f => j <= i
    IN [f \in {items[i].frame : i \in visible} |-> items[last(f)].visible_frame]

\* from cv2 import VideoCapture (MissingDependency when OpenCV is not installed);
\* cap = VideoCapture(str(path)); frames_to_extract = ...; frame_index = 0
OpenCapture ==
    /\ xPc = "import"
    /\ IF xOpenCV
         THEN /\ frames_to_extract' = FramesToExtract(xManifest.items)
              /\ xPc' = "loop"
              /\ UNCHANGED xRaised
         ELSE /\ xPc' = "raised"
              /\ xRaised' = "MissingDependency"
              /\ UNCHANGED frames_to_extract
    /\ UNCHANGED <<disk, xManifest, xStream, xOpenCV, frame_index, xReads>>
    /\ UNCHANGED notExtractVars

\* frames_to_extract.pop(frame_index)
Pop(dict, key) == [f \in DOMAIN dict \ {key} |-> dict[f]]

\* One iteration of while cap.isOpened(): success, frame = cap.read(). At the end of
\* the stream read() gives (False, None), so the test of success is never reached
\* with success False.
ReadFrame ==
    /\ xPc = "loop"
    /\ xStream.opened
    /\ xReads' = Append(xReads, [index |-> frame_index, pending |-> DOMAIN frames_to_extract # {}])
    /\ IF frame_index >= xStream.frames
         THEN /\ xPc' = "release"
              /\ UNCHANGED <<disk, frames_to_extract, frame_index, xRaised>>
         ELSE IF frame_index \in DOMAIN frames_to_extract
         THEN LET visible_frame == frames_to_extract[frame_index]
                  frame_path == Append(ContainerParent, FrameFileName(visible_frame))
              IN /\ frames_to_extract' = Pop(frames_to_extract, frame_index)
                 /\ IF Cv2Bound
                      THEN /\ disk' = (frame_path :> FrameContent(frame_index)) @@ disk
                           /\ IF DOMAIN frames_to_extract' = {}
                                THEN xPc' = "release" /\ UNCHANGED frame_index
                                ELSE frame_index' = frame_index + 1 /\ UNCHANGED xPc
                           /\ UNCHANGED xRaised
                      ELSE /\ xPc' = "raised"
                           /\ xRaised' = "NameError"
                           /\ UNCHANGED <<disk, frame_index>>
         ELSE /\ frame_index' = frame_index + 1
              /\ UNCHANGED <<disk, frames_to_extract, xPc, xRaised>>
    /\ UNCHANGED <<xManifest, xStream, xOpenCV>>
    /\ UNCHANGED notExtractVars

\* The loop is left (cap.isOpened() is False, or break): cap.release(), and
\* _extract_frames_from_segment returns.
ReleaseCapture ==
    /\ \/ xPc = "release"
       \/ xPc = "loop" /\ ~xStream.opened
    /\ xPc' = "unlink"
    /\ UNCHANGED <<disk, xManifest, xStream, xOpenCV, frames_to_extract, frame_index, xReads,
                   xRaised>>
    /\ UNCHANGED notExtractVars

\* path.unlink()
UnlinkContainer ==
    /\ xPc = "unlink"
    /\ disk' = [f \in DOMAIN disk \ {ContainerPath} |-> disk[f]]
    /\ xPc' = "done"
    /\ UNCHANGED <<xManifest, xStream, xOpenCV, frames_to_extract, frame_index, xReads, xRaised>>
    /\ UNCHANGED notExtractVars

NextExtract ==
    \/ DownloadContainer
    \/ OpenCapture
    \/ ReadFrame
    \/ ReleaseCapture
    \/ UnlinkContainer

\* ============================================================ get_segment_manifests
\* src/darwin/dataset/download_manager.py:639-647

\* parent_path, and the directory TemporaryDirectory(dir=parent_path) makes in it
VideoPath == <<Dir("v")>>
TmpDir == Child(VideoPath, Dir("tmpdir"))

\* slot.frame_manifest: None, or the list of its urls
FrameManifests ==
    [present : BOOLEAN,
     urls : SeqsUpTo({[scheme |-> "https", file |-> FileName("f", ".bin"), query |-> ""]},
                     MaxUrls)]

AssembleIdle ==
    /\ gPc = "idle"
    /\ gFrameManifest = [present |-> FALSE, urls |-> <<>>]
    /\ gReturn = "none"
    /\ gRaised = ""

\* get_segment_manifests(slot, parent_path, api_key) is called; parent_path may hold
\* a frame of an earlier pull.
InitAssemble ==
    /\ gPc = "enter"
    /\ gFrameManifest \in FrameManifests
    /\ gReturn = "none"
    /\ gRaised = ""
    /\ disk \in {<<>>, (Child(VideoPath, FrameFileName(0)) :> "old")}

\* Mutant of RemoveTree: the directory is left as it is.
RemoveTreeNothing(d, dir) == d

\* TemporaryDirectory.__exit__: the directory and everything in it is removed.
RemoveTree(d, dir) == [f \in {g \in DOMAIN d : ~IsPrefix(dir, g)} |-> d[f]]

\* with TemporaryDirectory(dir=parent_path) as tmpdirname: ...
\* if slot.frame_manifest is None: raise ValueError("No frame manifest found")
EnterTemporaryDirectory ==
    /\ gPc = "enter"
    /\ IF gFrameManifest.present
         THEN /\ disk' = MakeDir(disk, TmpDir)
              /\ gPc' = "download"
              /\ UNCHANGED gRaised
         ELSE /\ disk' = RemoveTree(MakeDir(disk, TmpDir), TmpDir)
              /\ gPc' = "raised"
              /\ gRaised' = "ValueError"
    /\ UNCHANGED <<gFrameManifest, gReturn>>
    /\ UNCHANGED notAssembleVars

\* manifest_paths = download_manifest_txts(frame_urls, api_key, tmpdir): the call
AssembleDownload ==
    /\ gPc = "download"
    /\ fCalls = 0
    /\ CallDownloadManifestTxts(gFrameManifest.urls, TmpDir)

\* download_manifest_txts returned: _parse_manifests reads the files and gives the
\* list, or raises on a malformed line; the with block is left either way.
AssembleParse ==
    /\ gPc = "download"
    /\ fOp = "manifests" /\ fPc = "returned"
    /\ disk' = RemoveTree(disk, TmpDir)
    /\ \/ gPc' = "returned" /\ gReturn' = "list" /\ UNCHANGED gRaised
       \/ gPc' = "raised" /\ gRaised' = "parse" /\ UNCHANGED gReturn
    /\ UNCHANGED gFrameManifest
    /\ UNCHANGED notAssembleVars

\* download_manifest_txts raised: the exception leaves the with block
AssembleFetchRaised ==
    /\ gPc = "download"
    /\ fOp = "manifests" /\ fPc = "raised"
    /\ disk' = RemoveTree(disk, TmpDir)
    /\ gPc' = "raised"
    /\ gRaised' = fOutcome
    /\ UNCHANGED <<gFrameManifest, gReturn>>
    /\ UNCHANGED notAssembleVars

NextAssemble ==
    \/ EnterTemporaryDirectory
    \/ AssembleDownload
    \/ ManifestLoop
    \/ ManifestSend
    \/ AssembleParse
    \/ AssembleFetchRaised

\* ============================================================ _download_image_with_trace
\* src/darwin/dataset/download_manager.py:368-382, 509-511; src/darwin/dataset/utils.py:183-198

\* The still-image tasks of one annotation, one per source file.
TraceTasks == 1..Len(tPc)

\* The annotation JSON on disk: whether it decodes, and the source files (by
\* index) that have a local_path in it.
AnnotationJson(local_paths) == [decodes |-> TRUE, local_paths |-> local_paths]
\* The file after open(mode="w") and before the text is written: empty.
Truncated == [decodes |-> FALSE, local_paths |-> {}]

TraceIdle ==
    /\ tVersion = 2
    /\ tMulti = FALSE
    /\ tPc = <<>>
    /\ tRaw = <<>>
    /\ tFile = AnnotationJson({})

\* exhaust_generator is handed the _download_image_with_trace tasks of one
\* annotation, whose file has no local_path yet.
InitTrace ==
    /\ tVersion \in {1, 2}
    /\ tMulti \in BOOLEAN
    /\ \E n \in 1..MaxSourceFiles :
          /\ tPc = [i \in 1..n |-> "queued"]
          /\ tRaw = [i \in 1..n |-> {}]
    /\ tFile = AnnotationJson({})

\* The tasks a worker is executing.
TraceRunning == {i \in TraceTasks : tPc[i] \in {"download", "read", "open", "write"}}

\* A task starts: in the pool when one of the mp.cpu_count() workers is free, in
\* sequential mode when the tasks before it have returned.
TraceStart(i) ==
    /\ tPc[i] = "queued"
    /\ IF tMulti THEN Cardinality(TraceRunning) < PoolSize
       ELSE \A j \in 1..(i - 1) : tPc[j] = "done"
    /\ tPc' = [tPc EXCEPT ![i] = "download"]
    /\ UNCHANGED <<tVersion, tMulti, tRaw, tFile>>
    /\ UNCHANGED notTraceVars

\* _download_image(image_url, image_path, api_key) returns;
\* _update_local_path: if annotation.version.major == 1: return
TraceDownloaded(i) ==
    /\ tPc[i] = "download"
    /\ tPc' = [tPc EXCEPT ![i] = IF tVersion = 1 THEN "done" ELSE "read"]
    /\ UNCHANGED <<tVersion, tMulti, tRaw, tFile>>
    /\ UNCHANGED notTraceVars

\* raw_annotation = attempt_decode(annotation.path), which raises on a file that
\* does not decode; then source_file["local_path"] = str(local_path) in that copy
TraceRead(i) ==
    /\ tPc[i] = "read"
    /\ IF tFile.decodes
         THEN /\ tRaw' = [tRaw EXCEPT ![i] = tFile.local_paths \cup {i}]
              /\ tPc' = [tPc EXCEPT ![i] = "open"]
         ELSE /\ tPc' = [tPc EXCEPT ![i] = "failed"]
              /\ UNCHANGED tRaw
    /\ UNCHANGED <<tVersion, tMulti, tFile>>
    /\ UNCHANGED notTraceVars

\* with annotation.path.open(mode="w") as file: the file is truncated
TraceOpen(i) ==
    /\ tPc[i] = "open"
    /\ tFile' = Truncated
    /\ tPc' = [tPc EXCEPT ![i] = "write"]
    /\ UNCHANGED <<tVersion, tMulti, tRaw>>
    /\ UNCHANGED notTraceVars

\* op = json.dumps(raw_annotation, ...); file.write(op), and the file is closed: the
\* file holds the text of the task's own copy
TraceWrite(i) ==
    /\ tPc[i] = "write"
    /\ tFile' = AnnotationJson(tRaw[i])
    /\ tPc' = [tPc EXCEPT ![i] = "done"]
    /\ UNCHANGED <<tVersion, tMulti, tRaw>>
    /\ UNCHANGED notTraceVars

NextTrace ==
    \/ \E i \in TraceTasks : TraceStart(i)
    \/ \E i \in TraceTasks : TraceDownloaded(i)
    \/ \E i \in TraceTasks : TraceRead(i)
    \/ \E i \in TraceTasks : TraceOpen(i)
    \/ \E i \in TraceTasks : TraceWrite(i)

\* The subsystems of the sections after pull are idle.
LaterIdle == ReleaseIdle /\ ExtractIdle /\ AssembleIdle /\ TraceIdle

\* ============================================================ specifications

InitE == InitEngine /\ ManifestIdle /\ FetchIdle /\ PlanIdle /\ PullIdle /\ LaterIdle
SpecEngine == InitE /\ [][NextEngine]_vars

InitM == InitManifest /\ EngineIdle /\ FetchIdle /\ PlanIdle /\ PullIdle /\ LaterIdle
SpecManifest == InitM /\ [][NextManifest]_vars

InitF == InitFetchVars /\ EngineIdle /\ ManifestIdle /\ PlanIdle /\ PullIdle /\ LaterIdle
SpecFetch == InitF /\ [][NextFetch]_vars

InitP ==
    InitPlanVars /\ FetchLocalsIdle /\ fCalls = 0 /\ EngineIdle /\ ManifestIdle /\ PullIdle
    /\ LaterIdle
SpecPlan == InitP /\ [][NextPlan]_vars

InitPull ==
    InitPullVars /\ FetchLocalsIdle /\ fCalls = 0 /\ EngineIdle /\ ManifestIdle /\ LaterIdle
SpecPull == InitPull /\ [][NextPull]_vars

InitR ==
    InitRelease /\ EngineIdle /\ ManifestIdle /\ FetchIdle /\ PlanIdle /\ PullIdle
    /\ ExtractIdle /\ AssembleIdle /\ TraceIdle
SpecRelease == InitR /\ [][NextRelease]_vars

InitX ==
    InitExtract /\ FetchLocalsIdle /\ fCalls = 0 /\ EngineIdle /\ ManifestIdle /\ PlanIdle
    /\ PullIdle /\ ReleaseIdle /\ AssembleIdle /\ TraceIdle
SpecExtract == InitX /\ [][NextExtract]_vars

InitG ==
    InitAssemble /\ FetchLocalsIdle /\ fCalls = 0 /\ EngineIdle /\ ManifestIdle /\ PlanIdle
    /\ PullIdle /\ ReleaseIdle /\ ExtractIdle /\ TraceIdle
SpecAssemble == InitG /\ [][NextAssemble]_vars

InitT ==
    InitTrace /\ EngineIdle /\ ManifestIdle /\ FetchIdle /\ PlanIdle /\ PullIdle /\ ReleaseIdle
    /\ ExtractIdle /\ AssembleIdle
SpecTrace == InitT /\ [][NextTrace]_vars

\* _download_image alone. The thread that runs the call keeps running: a request
\* is answered, a sleep ends.
NextImage ==
    \/ DownloadImage
    \/ ImageRequest
    \/ ImageSleep
    \/ SubFileFetch
    \/ CallerContinues
FairImage ==
    /\ InitF
    /\ [][NextImage]_vars
    /\ WF_vars(ImageRequest \/ ImageSleep \/ SubFileFetch)

\* ============================================================ claims

\* C1: exhaust_generator with multi_threaded=True executes every task exactly once,
\* returns only after all have finished, lets no task exception reach the caller,
\* and returns exactly the results of the tasks that did not raise, in order.
C1_ParallelBatchIsolation ==
    eMulti =>
        /\ ePc # "raised"
        /\ \A i \in TaskIds : eRuns[i] <= 1
        /\ ePc = "done" =>
              /\ \A i \in TaskIds : eRuns[i] = 1 /\ eState[i] \in {"ok", "err"}
              /\ eResponses = SelectSeq([i \in TaskIds |-> i], LAMBDA i : eTasks[i] = "ok")

\* Five tasks, the third raises: the call is over with four responses.
C1_Witness ==
    /\ eMulti /\ ePc = "done"
    /\ eTasks = <<"ok", "ok", "raise", "ok", "ok">>
    /\ eResponses = <<1, 2, 4, 5>>

\* C2: in sequential mode (multi_threaded=False) the whole batch is finished: when
\* exhaust_generator is over, every task was executed, also those after a task
\* that raised.
C2_SequentialFinishesBatch ==
    (~eMulti /\ ePc \in {"done", "raised"}) => \A i \in TaskIds : eRuns[i] = 1

\* C3: a call of _download_image whose destination existed when it was called
\* sends no request, leaves the disk as it was and returns without raising.
C3_IdempotentSkip ==
    (fOp = "image" /\ fPath \in DOMAIN fDisk0) =>
        /\ fReqs = 0
        /\ disk = fDisk0
        /\ fPc = "returned"
        /\ fOutcome = "skipped"

\* The second call finds the file the first call wrote (a url with a token, a slot
\* with the RG16 colorspace).
C3_Witness ==
    /\ fOp = "image" /\ fPc = "returned" /\ fOutcome = "skipped"
    /\ fCalls = 2
    /\ fPath \in DOMAIN disk /\ disk[fPath] = "body"
    /\ HasToken(fUrl) /\ fSlot = "RG16"

C6_PollLoopTerminates ==
    /\ [](fOutcome = "timeout" => fElapsed > TIMEOUT)
    /\ []((fOp = "image" /\ fPc = "sleep") => fElapsed <= TIMEOUT)
    /\ []((fOp = "image" /\ fPc = "loop") => fReqs = fSleeps)
    /\ []((fOp = "image" /\ fPc = "sleep") => fReqs = fSleeps + 1)
    /\ (fOp = "image" /\ fPc \in {"loop", "sleep", "multi"}) ~> (fPc \in {"returned", "raised"})
    /\ (fOp = "image" /\ fPc = "loop" /\ fScript.fails = Forever) ~> (fOutcome = "timeout")

\* The server answered 503 to 62 requests, one second apart: timeout at 61 seconds.
C6_Witness ==
    /\ fOp = "image" /\ fPc = "raised" /\ fOutcome = "timeout"
    /\ fElapsed = TIMEOUT + 1
    /\ fReqs = TIMEOUT + 2 /\ fSleeps = TIMEOUT + 1

\* C7: for a segment or manifest url of any scheme, a server that answers a status
\* of the forcelist one to RetryTotal times and then 200 does not make
\* _download_video_segment_file / download_manifest_txts raise.
C7_TransientErrorsRetried ==
    (/\ fOp \in {"segment", "manifests"}
     /\ fScript.fails \in 1..RetryTotal
     /\ fScript.code \in StatusForcelist
     /\ fScript.final = OkBinary) => fPc # "raised"

\* C8: a request sent by _download_image, _download_video_segment_file or
\* download_manifest_txts carries an Authorization header if and only if its url
\* does not contain "token".
C8_AuthorizationIffNoToken ==
    fLast.by \in {"_download_image", "_download_video_segment_file", "download_manifest_txts"} =>
        (fLast.auth <=> ~HasToken(fLast.url))

\* C4: with force_replace=False the planner returns no download function whose
\* destination is a file that was on disk when the planner was called.
C4_ExistingDestinationsSkipped ==
    (pPc = "done" /\ ~options.force_replace) =>
        \A k \in 1..Len(download_functions) :
            FsKey(download_functions[k].path) \notin DOMAIN pDisk0

\* The items of the returned segments, in list order.
RECURSIVE FlatItems(_)
FlatItems(segs) ==
    IF segs = <<>> THEN <<>>
    ELSE FlatItems(SubSeq(segs, 1, Len(segs) - 1)) \o segs[Len(segs)].items

RECURSIVE CountLines(_)
CountLines(files) ==
    IF files = <<>> THEN 0
    ELSE CountLines(SubSeq(files, 1, Len(files) - 1)) + Len(files[Len(files)])

\* C9: the list _parse_manifests returns is in ascending segment-number order, and
\* the absolute_frame values of a lower-numbered segment are all smaller than those
\* of a higher-numbered one.
C9_SegmentsAscending ==
    mPc = "done" =>
        /\ \A j, k \in 1..Len(segments) : j < k => segments[j].segment < segments[k].segment
        /\ \A x, y \in Range(FlatItems(segments)) :
              x.segment < y.segment => x.absolute_frame < y.absolute_frame

\* C10: reading the returned segments and their items in list order,
\* absolute_frame is 0, 1, ..., n-1, n being the number of manifest lines.
C10_AbsoluteFramesCount ==
    mPc = "done" =>
        /\ Len(FlatItems(segments)) = CountLines(mPaths)
        /\ \A j \in 1..Len(FlatItems(segments)) : FlatItems(segments)[j].absolute_frame = j - 1

\* Three lines in two segments, one of them not visible.
C10_Witness ==
    /\ mPc = "done"
    /\ Len(segments) = 2
    /\ Len(segments[2].items) = 2
    /\ segments[2].items[2].absolute_frame = 2
    /\ ~segments[2].items[1].visibility

\* Number of lines with visibility 1 in the manifest files.
RECURSIVE CountVisible(_)
CountVisible(files) ==
    IF files = <<>> THEN 0
    ELSE CountVisible(SubSeq(files, 1, Len(files) - 1))
         + Cardinality({j \in 1..Len(files[Len(files)]) : files[Len(files)][j].visibility # 0})

\* C11: the visible_frame indices _parse_manifests assigns across all segments are
\* exactly 0..m-1, m being the number of lines with visibility 1; no index is
\* assigned twice and items with visibility 0 get none.
C11_VisibleIndexContinuity ==
    mPc = "done" =>
        LET items == FlatItems(segments)
            visible == {j \in 1..Len(items) : items[j].visibility}
        IN /\ {items[j].visible_frame : j \in visible} = 0..(CountVisible(mPaths) - 1)
           /\ \A i, j \in visible : items[i].visible_frame = items[j].visible_frame => i = j
           /\ \A j \in 1..Len(items) : ~items[j].visibility => items[j].visible_frame = NONE

\* Two files, two segments: visible lines in both files and both segments share
\* one counter, and a line that is not visible lies between them.
C11_Witness ==
    /\ mPc = "done"
    /\ Len(mPaths) = 2 /\ Len(mPaths[1]) >= 1 /\ Len(mPaths[2]) >= 1
    /\ Len(segments) = 2
    /\ \E a \in Range(segments[1].items), b \in Range(segments[2].items) :
          a.visibility /\ b.visibility /\ a.visible_frame = 0 /\ b.visible_frame = 1
    /\ \E c \in Range(FlatItems(segments)) : ~c.visibility

\* C12: when _download_image gets an OK JSON response listing urls u1..uk and each
\* ui is fetched, the call returns having created the directory <destination minus
\* extension> and in it one file per ui named by the last path segment of ui; it
\* makes one request per ui and creates nothing else, no file at the destination.
C12_IndirectionExpansion ==
    (/\ fOp = "image" /\ fPc = "returned" /\ fOutcome = "written"
     /\ HasJsonContentType(fScript.final)) =>
        LET urls == fScript.final.urls
            dir_path == <<FileName(fPath[1].stem, "")>>
            files == {Append(dir_path, urls[k].file) : k \in 1..Len(urls)}
        IN /\ dir_path \in DOMAIN disk /\ disk[dir_path] = "dir"
           /\ \A f \in files : f \in DOMAIN disk /\ disk[f] \in {"body", "gray"}
           /\ fPath \notin DOMAIN disk
           /\ DOMAIN disk = DOMAIN fDisk0 \cup {dir_path} \cup files
           /\ fReqs = fScript.fails + 1 + Len(urls)

\* The urls a.dcm and b.dcm were expanded under img/.
C12_Witness ==
    /\ fOp = "image" /\ fPc = "returned" /\ fOutcome = "written"
    /\ HasJsonContentType(fScript.final)
    /\ Len(fScript.final.urls) = 2
    /\ fPath = ImagePath
    /\ <<FileName("img", ""), FileName("a", ".dcm")>> \in DOMAIN disk
    /\ <<FileName("img", ""), FileName("b", ".dcm")>> \in DOMAIN disk
    /\ ImagePath \notin DOMAIN disk

\* The annotations the returned plan covers.
PlannedAnnotations == {annotations[annotations_to_download_path[k]] :
                          k \in 1..Len(annotations_to_download_path)}

\* parent_path of an annotation: images_path, with the remote folders under use_folders.
ParentPath(annotation) ==
    IF options.use_folders
      THEN PurePath(images_path.abs,
                    images_path.parts
                    \o [i \in 1..Len(annotation.remote_path) |-> Dir(annotation.remote_path[i])])
      ELSE images_path

\* <parent>/<itemFilename>/<slotName>
SlotPath(annotation, slot) ==
    PurePath(images_path.abs,
             ParentPath(annotation).parts \o <<annotation.filename, Dir(slot.name)>>)

\* The tasks of the plan that fetch a source file of the annotation.
TasksOf(annotation) ==
    {k \in 1..Len(download_functions) :
        \E i \in 1..Len(annotation.slots) :
            \E j \in 1..Len(annotation.slots[i].source_files) :
                download_functions[k].url = annotation.slots[i].source_files[j].url}

\* C13: with ignore_slots=False, a planned item with more than one slot gets the
\* multi-slot strategy whether force_slots was passed True or False: every source
\* file of every slot has a task, whose destination is <parent>/<item>/<slot>/<file>.
C13_MultiSlotItemsEscalate ==
    (pPc = "done" /\ ~options.ignore_slots) =>
        \A a \in PlannedAnnotations :
            Len(a.slots) > 1 =>
                /\ \A i \in {n \in 1..Len(a.slots) :
                                ~options.video_frames \/ a.slots[n].type = "image"} :
                      \A j \in 1..Len(a.slots[i].source_files) :
                          \E k \in TasksOf(a) :
                              /\ download_functions[k].url = a.slots[i].source_files[j].url
                              /\ download_functions[k].path =
                                    JoinName(SlotPath(a, a.slots[i]),
                                             a.slots[i].source_files[j].file_name)
                /\ \A k \in TasksOf(a) :
                      \E i \in 1..Len(a.slots) :
                          IsPrefix(SlotPath(a, a.slots[i]).parts, download_functions[k].path.parts)

\* force_slots was passed False, and the two slots of z got their tasks under
\* z.png/a/ and z.png/b/.
C13_Witness ==
    /\ pPc = "done" /\ ~options.ignore_slots /\ ~options.force_slots
    /\ \E a \in PlannedAnnotations :
          /\ Len(a.slots) = 2
          /\ Cardinality(TasksOf(a)) = 2
          /\ \A k \in TasksOf(a) :
                Len(download_functions[k].path.parts) = Len(images_path.parts) + 3

\* C14: escalation to the multi-slot strategy is decided per item: when force_slots
\* was passed False, a planned item with exactly one slot and one source file has
\* exactly one task, whose destination lies directly in the parent directory,
\* whatever other items the annotations directory holds.
C14_EscalationPerItem ==
    (pPc = "done" /\ ~options.force_slots) =>
        \A a \in PlannedAnnotations :
            (/\ Len(a.slots) = 1
             /\ Len(a.slots[1].source_files) = 1
             /\ (~options.video_frames \/ a.slots[1].type = "image")) =>
                /\ Cardinality(TasksOf(a)) = 1
                /\ \A k \in TasksOf(a) :
                      /\ IsPrefix(ParentPath(a).parts, download_functions[k].path.parts)
                      /\ Len(download_functions[k].path.parts) = Len(ParentPath(a).parts) + 1

\* The urls a slot can be fetched from.
SlotUrls(slot) ==
    {slot.source_files[j].url : j \in 1..Len(slot.source_files)}
    \cup Range(slot.frame_urls) \cup Range(slot.segments)

\* The slot with the least key (name or "0"), the earliest one among equals.
FirstSlot(annotation) ==
    annotation.slots[
        CHOOSE i \in 1..Len(annotation.slots) :
            \A j \in 1..Len(annotation.slots) :
                \/ SlotKey(annotation.slots[i].name) < SlotKey(annotation.slots[j].name)
                \/ /\ SlotKey(annotation.slots[i].name) = SlotKey(annotation.slots[j].name)
                   /\ i <= j]

\* C15: with ignore_slots=True an item with at least one slot is planned with the
\* single-slot strategy, also when force_slots was passed True or was escalated:
\* every task of the item fetches from its first slot in (name or "0") order, none
\* lies under <parent>/<item>/<slot>/, and a still image has exactly one task.
C15_IgnoreSlotsWins ==
    (pPc = "done" /\ options.ignore_slots) =>
        \A a \in PlannedAnnotations :
            Len(a.slots) > 0 =>
                LET mine == {k \in 1..Len(download_functions) :
                                \E i \in 1..Len(a.slots) :
                                    download_functions[k].url \in SlotUrls(a.slots[i])}
                    slot == FirstSlot(a)
                IN /\ \A k \in mine :
                         /\ download_functions[k].url \in SlotUrls(slot)
                         /\ ~IsPrefix(SlotPath(a, slot).parts, download_functions[k].path.parts)
                   /\ (~options.video_frames \/ slot.type = "image") =>
                         /\ Cardinality(mine) = 1
                         /\ \A k \in mine : download_functions[k].url = slot.source_files[1].url

\* force_slots is True at the end, ignore_slots was passed, and the two-slot item z
\* has the single task of its slot "a", which the file lists second.
C15_Witness ==
    /\ pPc = "done" /\ options.ignore_slots /\ force_slots
    /\ \E a \in PlannedAnnotations :
          /\ Len(a.slots) = 2
          /\ a.slots[2].name = "a"
          /\ \E k \in 1..Len(download_functions) :
                download_functions[k].url = a.slots[2].source_files[1].url
          /\ \A k \in 1..Len(download_functions) :
                download_functions[k].url # a.slots[1].source_files[1].url

\* C16: in every returned plan no two distinct tasks have the same destination
\* path, also when file or slot names repeat or become equal after sanitization.
C16_TaskPathsUnique ==
    pPc = "done" =>
        \A j, k \in 1..Len(download_functions) :
            FsKey(download_functions[j].path) = FsKey(download_functions[k].path) => j = k

\* C17: in parallel mode, when exhaust_generator returns, the progress counter
\* pbar.completed equals the number of tasks submitted, whether they succeeded
\* or raised.
C17_ProgressCountsEveryTask ==
    (eMulti /\ ePc = "done") => eCompleted = Len(eTasks)

\* The download functions that raised during the run.
Failed == {k \in 1..Len(plRan) : plRan[k] = "raised"}

\* What a blocking pull over the same plan returns when no download function fails.
ErrorFreeReturn == [generator |-> "None", count |-> Len(download_functions)]

\* C18: after a blocking run in which k download functions failed, the caller can
\* observe the tally k from what pull returns; in particular a run with k > 0
\* returns something else than a run of the same plan without failures.
C18_ErrorTallyReported ==
    (plPc = "returned" /\ pull.blocking /\ Cardinality(Failed) > 0) =>
        plReturn # ErrorFreeReturn

C20_ForceReplaceRedownloads ==
    (plPc = "returned" /\ pull.blocking /\ options.force_replace) =>
        \A k \in 1..Len(plRan) :
            FsKey(download_functions[k].path) \in DOMAIN pDisk0 =>
                \/ plRan[k] = "raised"
                \/ /\ plRan[k] = "written"
                   /\ disk[FsKey(download_functions[k].path)] # "old"

\* The scanned paths that name files (a directory yielded by the scan is no media file).
ScannedFiles == {image \in existing_images : ~IsDirectory(pDisk0, FsKey(image))}

\* C21: when download_all_images_from_annotations returns with remove_extra=True, a
\* media file found by the initial scan still exists if and only if its stem is the
\* stem of some annotation file; with remove_extra=False every scanned file still
\* exists. Nothing is deleted before the scan has finished, and no download function
\* is planned before the deletion.
C21_RemoveExtraKeepsAnnotatedOnly ==
    /\ pPc = "done" =>
          \A image \in ScannedFiles :
              FsKey(image) \in DOMAIN disk <=>
                  (options.remove_extra =>
                      \E i \in 1..Len(annotations) :
                          annotations[i].stem = image.parts[Len(image.parts)].stem)
    /\ pPc \in {"scan", "filter"} => (disk = pDisk0 /\ download_functions = <<>>)

\* The planner returned with remove_extra=True: the scanned file, which has no
\* annotation, was deleted, and download functions were planned after that.
C21_Witness ==
    /\ pPc = "done"
    /\ options.remove_extra
    /\ \E image \in ScannedFiles : FsKey(image) \notin DOMAIN disk
    /\ download_functions # <<>>

\* C22: pull called with a release whose format is not "json" raises
\* UnsupportedExportFormat carrying that format before it creates the release
\* directory, downloads the archive or touches the annotations: nothing of the
\* local release state changes, and pull never reaches the planner.
C22_NonJsonFormatRaisesFirst ==
    release.format # "json" =>
        /\ rPc \in {"called", "raised"}
        /\ rLocal = rLocal0
        /\ rZip = NoZip
        /\ rPc = "raised" =>
              rRaised = [type |-> "UnsupportedExportFormat", format |-> release.format]

\* pull was called with an xml release over an existing local release and raised.
C22_Witness ==
    /\ release.format = "xml"
    /\ rLocal0.annotations # {}
    /\ rPc = "raised"
    /\ rRaised.type = "UnsupportedExportFormat"

\* The visible items of the SegmentManifest being extracted.
VisibleItems == {i \in 1..Len(xManifest.items) : xManifest.items[i].visibility}

\* C23: when the stream of the segment ends while visible frames are still pending
\* (a read at the end of the stream with a non-empty pending set),
\* _extract_frames_from_segment raises, so the owning task fails.
C23_ExhaustionRaises ==
    (/\ xReads # <<>>
     /\ xReads[Len(xReads)].index >= xStream.frames
     /\ xReads[Len(xReads)].pending) => xPc = "raised"

\* The frame files under the parent directory of the container.
FrameFiles == DOMAIN disk \ {ContainerPath}

\* C24: for a stream with more frames than the largest visible frame number, once
\* _extract_frames_from_segment has ended the parent directory of the container
\* holds exactly one file per visible manifest item, named by the item's
\* visible_frame and holding the decoded frame with the item's frame number.
C24_OneFilePerVisibleItem ==
    (/\ xPc \in {"unlink", "done", "raised"}
     /\ xOpenCV /\ xStream.opened /\ xRaised # "Exception"
     /\ \A i \in VisibleItems : xManifest.items[i].frame < xStream.frames) =>
        /\ FrameFiles = {Append(ContainerParent, FrameFileName(xManifest.items[i].visible_frame)) :
                            i \in VisibleItems}
        /\ \A i \in VisibleItems :
              disk[Append(ContainerParent, FrameFileName(xManifest.items[i].visible_frame))]
                  = FrameContent(xManifest.items[i].frame)

\* C25: whenever _download_and_extract_video_segment has ended after the container
\* was downloaded, by returning or by raising, the container file is gone.
C25_ContainerDeletedOnEveryExit ==
    (xPc \in {"done", "raised"} /\ xRaised # "Exception") => ContainerPath \notin DOMAIN disk

\* C26: _extract_frames_from_segment reads a frame from the decoder only while
\* visible frames are pending.
C26_NoReadWhilePendingEmpty ==
    \A k \in 1..Len(xReads) : xReads[k].pending

\* The slots of a planned annotation the chosen strategy operates on: the first
\* slot under the single-slot strategy, every slot under the multi-slot strategy.
OperatedSlots(annotation) ==
    IF annotation.slots = <<>> THEN {}
    ELSE IF options.ignore_slots \/ ~force_slots THEN {FirstSlot(annotation)}
    ELSE Range(annotation.slots)

\* C28: in a returned plan, every slot the planner operates on in the still-image
\* case has exactly one task per source file, under the single-slot strategy as
\* under the multi-slot strategy.
C28_OneTaskPerSourceFile ==
    pPc = "done" =>
        \A a \in PlannedAnnotations :
            \A slot \in OperatedSlots(a) :
                (~options.video_frames \/ slot.type = "image") =>
                    Cardinality({k \in 1..Len(download_functions) :
                                    \E j \in 1..Len(slot.source_files) :
                                        download_functions[k].url = slot.source_files[j].url})
                        = Len(slot.source_files)

\* The tasks of the plan that download a segment container of the slot.
SegmentTasksOf(slot) ==
    {k \in 1..Len(download_functions) :
        /\ download_functions[k].fn = "_download_and_extract_video_segment"
        /\ download_functions[k].url \in Range(slot.segments)}

\* C30: in a returned plan a long-video slot has exactly one task per segment
\* number its manifest lines mention, and the task that carries the SegmentManifest
\* of segment number s downloads the container of that segment, slot.segments[s].
C30_SegmentTaskPairsManifestWithItsUrl ==
    (pPc = "done" /\ options.video_frames) =>
        \A a \in PlannedAnnotations :
            \A slot \in OperatedSlots(a) :
                (slot.type # "image" /\ slot.frame_urls = <<>>) =>
                    /\ {download_functions[k].manifest.segment : k \in SegmentTasksOf(slot)}
                          = {line.segment : line \in Range(AllLines(slot.frame_manifest))}
                    /\ Cardinality(SegmentTasksOf(slot))
                          = Cardinality({line.segment : line \in Range(AllLines(slot.frame_manifest))})
                    /\ \A k \in SegmentTasksOf(slot) :
                          LET s == download_functions[k].manifest.segment
                          IN s + 1 \in 1..Len(slot.segments)
                             /\ download_functions[k].url = slot.segments[s + 1]

\* C27: once get_segment_manifests has returned or raised, the temporary directory
\* it made in parent_path and every manifest file in it are gone; a failure of
\* download_manifest_txts leaves the call as that exception, and a call that
\* raises returns no list.
C27_TemporaryDirectoryAlwaysRemoved ==
    /\ gPc \in {"returned", "raised"} => \A f \in DOMAIN disk : ~IsPrefix(TmpDir, f)
    /\ gPc = "returned" => (fPc = "returned" /\ fOutcome = "written" /\ gReturn = "list")
    /\ gPc = "raised" => gReturn = "none"
    /\ (gPc \in {"returned", "raised"} /\ fPc = "raised") =>
          (gPc = "raised" /\ gRaised = fOutcome)

\* The second manifest came back empty after the first one was written to the
\* temporary directory: the call raised and the directory is gone.
C27_Witness ==
    /\ gPc = "raised" /\ gRaised = "empty"
    /\ fIdx = 1
    /\ TmpDir \notin DOMAIN disk
    /\ Child(TmpDir, ManifestFileName(0)) \notin DOMAIN disk
    /\ Child(VideoPath, FrameFileName(0)) \in DOMAIN disk

\* C29: when the still-image tasks of one annotation of schema version 2 ran in the
\* worker pool and all succeeded, the annotation file decodes and holds a
\* local_path for every one of their source files.
C29_NoLocalPathLost ==
    (tMulti /\ tVersion = 2 /\ \A i \in TraceTasks : tPc[i] = "done") =>
        (tFile.decodes /\ tFile.local_paths = TraceTasks)

====
